---------------------------- MODULE Spec2Model ----------------------------
(***************************************************************************)
(* A model of kcp-libuv's session layer: KCPConnection (one session over   *)
(* one KCP engine), KCPServer (the session table, the datagram demux and   *)
(* the periodic sweep).  Each handler of the event loop is one action.     *)
(* The KCP engine (ikcp.h) and libuv are external: the engine is an        *)
(* ordered queue pair, libuv is the two handles' active flags.             *)
(***************************************************************************)
EXTENDS Integers, Sequences, FiniteSets, TLC

(***************************************************************************)
(* Bounds of the model.                                                    *)
(***************************************************************************)
\* Session ids are 0..MaxConv (uint32_t conv in the code).
MaxConv == 1
\* Capacity of the engine's send queue and of its receive queue.
MaxQueue == 1
\* Width of the millisecond timestamps (uint32_t in the code: 32).
TimeBits == 3
\* How many milliseconds the server's clock advances in one run.
MaxTicks == 2
\* How deep a close callback that calls close() again is followed.
MaxReenter == 2
\* How many messages send() accepts in one run of two connected sessions.
MaxMsgs == 3
\* How often the close callback of one session runs before its user stops
\* calling set_state on it.
MaxCloses == 2
\* How many datagrams a lossy network drops in one run, and how many it
\* holds in one direction at a time.
MaxDrops == 2
MaxFlight == 2

(***************************************************************************)
(* Program constants.                                                      *)
(***************************************************************************)
\* kcp_server.cpp:241, the KCP header length.
MinHeaderLen == 24
\* kcp_connection.h:306, sizeof(recv_buffer_): 64 KB.
RecvBufferLen == 65536
\* kcp_server.cpp:10, the constructor's timeout_, scaled to the model's
\* timestamp width (30000 ms of 2^32; here the largest value but one).
Wrap == 2 ^ TimeBits
DefaultTimeout == Wrap - 2

Convs == 0 .. MaxConv
Payloads == {"hello", "PING"}
\* The values of the seven tunables (nodelay, interval, resend, nc, sndwnd,
\* rcvwnd, mtu): the constructors' (1, 10, 2, 1, 128, 128, 1400) and the
\* standard mode's (0, 40, 0, 0, 128, 128, 1400).
Configs == {"lowlatency", "standard"}
States == {"CONNECTING", "CONNECTED", "DISCONNECTING", "DISCONNECTED"}
Timestamps == 0 .. (Wrap - 1)
\* The clock value at which the server's run starts: just before the wrap.
ClockStart == Wrap - 2

\* uint32_t arithmetic: every sum and difference is taken modulo 2^w.
Add32(a, b) == (a + b) % Wrap
Sub32(a, b) == ((a - b) + Wrap) % Wrap

(***************************************************************************)
(* The KCP engine, one per session (ikcp.h, not part of src).  snd holds   *)
(* what ikcp_waitsnd counts, rcv the reassembled messages ikcp_recv hands  *)
(* out, cfg the parameters ikcp_nodelay, ikcp_wndsize and ikcp_setmtu were  *)
(* given, tuned the fields of the control block written one by one.        *)
(***************************************************************************)
ikcp_create(conv) ==
  [conv |-> conv, snd |-> <<>>, rcv |-> <<>>, cfg |-> "engine", tuned |-> {}]

\* ikcp_nodelay, ikcp_wndsize and ikcp_setmtu: the engine's parameters
\* become the seven values given.
ikcp_config(kcp, cfg) == [kcp EXCEPT !.cfg = cfg]

\* ikcp_send: 0 and the message queued, or a negative result when full.
ikcp_send(kcp, m) ==
  IF Len(kcp.snd) >= MaxQueue
    THEN [kcp |-> kcp, ret |-> -2]
    ELSE [kcp |-> [kcp EXCEPT !.snd = Append(@, m)], ret |-> 0]

\* ikcp_input: a datagram shorter than the header, of another conv or with
\* a bad command is rejected; a push queues its payload, an ack releases the
\* oldest message.
ikcp_input(kcp, dg) ==
  IF dg.len < MinHeaderLen THEN [kcp |-> kcp, ret |-> -1]
  ELSE IF dg.conv # kcp.conv THEN [kcp |-> kcp, ret |-> -1]
  ELSE IF dg.cmd = "push"
    THEN [kcp |-> IF Len(kcp.rcv) < MaxQueue
                    THEN [kcp EXCEPT !.rcv = Append(@, dg.data)]
                    ELSE kcp,
          ret |-> 0]
  ELSE IF dg.cmd = "ack"
    THEN [kcp |-> IF kcp.snd # <<>> THEN [kcp EXCEPT !.snd = Tail(@)] ELSE kcp,
          ret |-> 0]
  ELSE [kcp |-> kcp, ret |-> -3]

\* The length in bytes of a message of the model; "big" is one byte more
\* than the session's receive buffer holds.
MsgLen(m) ==
  CASE m = "big" -> RecvBufferLen + 1
    [] m = "hello" -> 5
    [] m \in {"PING", "PONG"} -> 4
    [] OTHER -> 11

\* ikcp_recv(kcp, buffer, len): the length of the next message, which leaves
\* the engine; negative when there is none, and negative with the message
\* left in place when it is longer than the len bytes of the buffer.
ikcp_recv(kcp, len) ==
  IF kcp.rcv = <<>>
    THEN [kcp |-> kcp, len |-> -1, data |-> "none"]
  ELSE IF MsgLen(Head(kcp.rcv)) > len
    THEN [kcp |-> kcp, len |-> -3, data |-> "none"]
    ELSE [kcp |-> [kcp EXCEPT !.rcv = Tail(@)],
          len |-> MsgLen(Head(kcp.rcv)), data |-> Head(kcp.rcv)]

ikcp_waitsnd(kcp) == Len(kcp.snd)

\* ikcp_update: flushes; every queued message goes to the output callback.
ikcp_update(kcp) ==
  [kcp |-> kcp,
   segs |-> [i \in 1 .. Len(kcp.snd) |->
               [conv |-> kcp.conv, cmd |-> "push", data |-> kcp.snd[i]]]]


(***************************************************************************)
(* KCPConnection.  A session is a record; every method is an operator that *)
(* returns the session after the call, the method's result, the callbacks  *)
(* it invoked (cb) and the datagrams it handed to uv_udp_send (out).       *)
(***************************************************************************)
\* data_callback_ is "none" (empty), "server" (KCPServer's adapter), "example"
\* (the lambda of examples/server_main.cpp) or "user" (one that only reads);
\* close_callback_ is "none", "server" (KCPServer's adapter), "user" (one that
\* only logs) or "reenter" (one that calls close() on its session).

\* KCPConnection::KCPConnection: CONNECTING, last_active_time_ 0, no callbacks.
\* nclose is history: how often close_callback_ has been invoked on the object.
KCPConnection(conv, udp_handle, addr) ==
  [conv_ |-> conv, udp_handle_ |-> udp_handle, addr_ |-> addr,
   state_ |-> "CONNECTING", last_active_time_ |-> 0,
   kcp_ |-> ikcp_create(conv),
   data_callback_ |-> "none", close_callback_ |-> "none", nclose |-> 0]

\* init_kcp() passing the constructors' defaults whatever it is given.
init_kcp_Defaults(s, cfg) == [s EXCEPT !.kcp_ = ikcp_config(@, "lowlatency")]

\* KCPConnection::init_kcp: the seven tunables go to the engine.
init_kcp(s, cfg) == [s EXCEPT !.kcp_ = ikcp_config(@, cfg)]

\* KCPConnection::set_minrto, set_fastresend, set_stream_mode and
\* set_dead_link: each writes one field of the session's control block.
set_minrto(s, v) == [s EXCEPT !.kcp_.tuned = @ \cup {<<"rx_minrto", v>>}]
set_fastresend(s, v) == [s EXCEPT !.kcp_.tuned = @ \cup {<<"fastresend", v>>}]
set_stream_mode(s, v) == [s EXCEPT !.kcp_.tuned = @ \cup {<<"stream", v>>}]
set_dead_link(s, v) == [s EXCEPT !.kcp_.tuned = @ \cup {<<"dead_link", v>>}]

NoEffect(s, ret) == [s |-> s, ret |-> ret, cb |-> <<>>, out |-> <<>>]

set_state(s, state) == [s EXCEPT !.state_ = state]
set_data_callback(s, cb) == [s EXCEPT !.data_callback_ = cb]
set_close_callback(s, cb) == [s EXCEPT !.close_callback_ = cb]
update_active_time(s, current) == [s EXCEPT !.last_active_time_ = current]
get_waitsnd(s) == ikcp_waitsnd(s.kcp_)

\* KCPConnection::output: the datagram goes to uv_udp_send, addressed to
\* get_addr(); uv_udp_send's result (uvret) is the call's result; without a
\* handle nothing is sent.  `by` notes which session sent the datagram.
output(s, buf, uvret) ==
  IF ~s.udp_handle_
    THEN [ret |-> -1, out |-> <<>>]
    ELSE [ret |-> uvret, out |-> <<[to |-> s.addr_, buf |-> buf, by |-> s.conv_]>>]

\* The state test of send().
SendAllowed_Always(s) == TRUE
SendAllowed(s) == s.state_ = "CONNECTED"

\* send() reporting success when the engine has rejected the write.
send_SwallowError(s, m) ==
  IF ~SendAllowed(s) THEN NoEffect(s, -1)
  ELSE LET r == ikcp_send(s.kcp_, m)
       IN  [s |-> [s EXCEPT !.kcp_ = r.kcp], ret |-> 0, cb |-> <<>>, out |-> <<>>]

\* KCPConnection::send.
send(s, m) ==
  IF ~SendAllowed(s) THEN NoEffect(s, -1)
  ELSE LET r == ikcp_send(s.kcp_, m)
       IN  IF r.ret < 0 THEN NoEffect(s, r.ret)
           ELSE [s |-> [s EXCEPT !.kcp_ = r.kcp], ret |-> 0,
                 cb |-> <<>>, out |-> <<>>]

\* send_udp_direct() handing the bytes to the engine's send queue.
send_udp_direct_Queued(s, m, uvret) ==
  LET r == ikcp_send(s.kcp_, m)
  IN  [s |-> [s EXCEPT !.kcp_ = r.kcp], ret |-> 0, cb |-> <<>>, out |-> <<>>]

\* The handle and state test of send_udp_direct().
DirectAllowed(s) == s.udp_handle_ /\ s.state_ = "CONNECTED"

\* KCPConnection::send_udp_direct: the bytes go out as they are.
send_udp_direct(s, m, uvret) ==
  IF ~DirectAllowed(s) THEN NoEffect(s, -1)
  ELSE LET o == output(s, [conv |-> "raw", cmd |-> "raw", data |-> m], uvret)
       IN  [s |-> s, ret |-> IF o.ret < 0 THEN o.ret ELSE 0,
            cb |-> <<>>, out |-> o.out]

\* input() closing the session when the engine rejects the datagram.
input_CloseOnError(s, dg) ==
  LET r == ikcp_input(s.kcp_, dg)
  IN  [s |-> IF r.ret < 0 THEN set_state(s, "DISCONNECTED")
             ELSE [s EXCEPT !.kcp_ = r.kcp],
       ret |-> IF r.ret < 0 THEN r.ret ELSE 0, cb |-> <<>>, out |-> <<>>]

\* KCPConnection::input: whatever the state, the datagram is fed to the engine.
input(s, dg) ==
  LET r == ikcp_input(s.kcp_, dg)
  IN  [s |-> [s EXCEPT !.kcp_ = r.kcp],
       ret |-> IF r.ret < 0 THEN r.ret ELSE 0, cb |-> <<>>, out |-> <<>>]

\* The segments the engine flushes, each passed through udp_output/output.
RECURSIVE FlushOut(_, _, _)
FlushOut(s, segs, i) ==
  IF i > Len(segs) THEN <<>>
  ELSE output(s, segs[i], 0).out \o FlushOut(s, segs, i + 1)

\* KCPConnection::update: whatever the state, the engine is ticked.
update(s, current) ==
  LET r == ikcp_update(s.kcp_)
  IN  [s |-> [s EXCEPT !.kcp_ = r.kcp], ret |-> 0, cb |-> <<>>,
       out |-> FlushOut(s, r.segs, 1)]

\* The early return of close().
CloseAlreadyDone_Never(s) == FALSE
CloseAlreadyDone(s) == s.state_ = "DISCONNECTED"

\* The state close() ends in.  The wait for an empty send queue exists in
\* the code as a log line only: the assignment that follows is unconditional.
CloseState_DrainWait(s) ==
  IF get_waitsnd(s) > 0 THEN "DISCONNECTING" ELSE "DISCONNECTED"
CloseState(s) == "DISCONNECTED"

\* KCPConnection::close.  The callback runs after the state is DISCONNECTED
\* (its event records the state it finds); a "reenter" callback calls close()
\* on the session it is given.
RECURSIVE close(_, _)
close(s, depth) ==
  IF CloseAlreadyDone(s) THEN NoEffect(s, 0)
  ELSE LET s1 == IF s.state_ \in {"CONNECTING", "CONNECTED"}
                   THEN set_state(s, "DISCONNECTING") ELSE s
           s2 == [set_state(s1, CloseState(s1)) EXCEPT
                    !.nclose = IF s.close_callback_ # "none" THEN @ + 1 ELSE @]
           ev1 == IF s2.close_callback_ # "none"
                    THEN <<[cb |-> "close", conv |-> s.conv_,
                            kind |-> s2.close_callback_,
                            state |-> s2.state_]>>
                    ELSE <<>>
           inner == IF s2.close_callback_ = "reenter" /\ depth < MaxReenter
                      THEN close(s2, depth + 1)
                      ELSE NoEffect(s2, 0)
       IN  [s |-> inner.s, ret |-> 0, cb |-> ev1 \o inner.cb, out |-> <<>>]

\* What the data callbacks of the repository answer with.
Reply(m) == IF m = "hello" THEN "reply:hello" ELSE m

\* One invocation of data_callback_(this, data, len).
\*   server : KCPServer::on_connection_data echoes through send();
\*   example: the lambda of examples/server_main.cpp answers PING on the
\*            direct path and everything else through send();
\*   user   : a callback that only reads the message;
\*   closer : a user's callback that calls close() on the session it is given.
DataCallback(s, m, uvret) ==
  IF s.data_callback_ = "server" THEN send(s, m)
  ELSE IF s.data_callback_ = "closer" THEN close(s, 0)
  ELSE IF s.data_callback_ = "example"
    THEN IF m = "PING" THEN send_udp_direct(s, "PONG", uvret)
         ELSE send(s, Reply(m))
  ELSE NoEffect(s, 0)

\* recv() taking one message off the engine without handing it on.
recv_NoCallback(s, uvret) ==
  LET r == ikcp_recv(s.kcp_, RecvBufferLen)
  IN  IF r.len < 0 THEN NoEffect(s, FALSE)
      ELSE [s |-> [s EXCEPT !.kcp_ = r.kcp], ret |-> TRUE, cb |-> <<>>, out |-> <<>>]

\* KCPConnection::recv: takes messages off the engine into recv_buffer_, one
\* callback per message, until ikcp_recv returns a negative length.
RECURSIVE recv(_, _)
recv(s, uvret) ==
  LET r == ikcp_recv(s.kcp_, RecvBufferLen)
  IN  IF r.len < 0 THEN NoEffect(s, FALSE)
      ELSE LET s1 == [s EXCEPT !.kcp_ = r.kcp]
               c  == IF s1.data_callback_ # "none"
                       THEN DataCallback(s1, r.data, uvret)
                       ELSE NoEffect(s1, 0)
               ev1 == IF s1.data_callback_ # "none"
                        THEN <<[cb |-> "data", conv |-> s.conv_, data |-> r.data]>>
                        ELSE <<>>
               rest == recv(c.s, uvret)
           IN  [s |-> rest.s, ret |-> TRUE,
                cb |-> ev1 \o c.cb \o rest.cb,
                out |-> c.out \o rest.out]

\* KCPConnection::is_timeout: unsigned subtraction, strict comparison.
is_timeout_NoWrap(s, current, timeout) == (current - s.last_active_time_) > timeout
is_timeout(s, current, timeout) == Sub32(current, s.last_active_time_) > timeout

(***************************************************************************)
(* KCPServer.  connections_ is the std::map: a sequence of sessions in key *)
(* order, which is the order the sweep's iterator visits them in.          *)
(***************************************************************************)
VARIABLES
  running_,                  \* KCPServer::running_
  timeout_,                  \* KCPServer::timeout_
  connections_,              \* KCPServer::connections_
  new_connection_callback_,  \* "none", or what the registered callback does
  recv_active,               \* uv_udp_recv_start .. uv_udp_recv_stop
  timer_active,              \* uv_timer_start .. uv_timer_stop
  clock,                     \* what get_current_ms() returns
  crashed,                   \* the process has been aborted by memory corruption
  destroyed,                 \* ~KCPServer has run
  halted,                    \* stop() has returned on a running server and
                             \* bind_and_listen() has not succeeded since
  ev,                        \* the handler that ran last, with its inputs
  cb_log,                    \* the callbacks that handler invoked, in order
  out_log,                   \* the datagrams that handler gave to uv_udp_send
  conn,                      \* a KCPConnection used on its own
  probe,                     \* an is_timeout() evaluation
  kcp_config_,               \* KCPServer::kcp_nodelay_ .. kcp_mtu_
  client,                    \* a KCPClient
  peer,                      \* a second KCPConnection, the remote end of conn
  wire,                      \* the datagrams in flight, per direction
  hist,                      \* what send() accepted, whether it has refused,
                             \* what the data callback was handed, and how
                             \* many datagrams the network has dropped
  threads                    \* what each thread of the client program is executing

vars == <<running_, timeout_, connections_, new_connection_callback_,
          recv_active, timer_active, clock, crashed, destroyed, halted,
          ev, cb_log, out_log, conn, probe,
          kcp_config_, client, peer, wire, hist, threads>>

serverVars == <<running_, timeout_, connections_, new_connection_callback_,
                recv_active, timer_active, clock, crashed, destroyed, halted>>

\* What the handlers of the server and of a lone connection leave alone.
restVars == <<kcp_config_, client, peer, wire, hist, threads>>

NewConnectionCallbacks == {"none", "example"}
Timeouts == {1, DefaultTimeout}

\* connections_.find(conv): the position of the entry, 0 for end().
MapFind(m, conv) ==
  IF \E i \in 1 .. Len(m) : m[i].conv_ = conv
    THEN CHOOSE i \in 1 .. Len(m) : m[i].conv_ = conv
    ELSE 0

\* connections_.erase(it).
MapEraseAt(m, i) == [j \in 1 .. (Len(m) - 1) |-> IF j < i THEN m[j] ELSE m[j + 1]]

\* A new node, linked in at its place in key order.
MapInsertNew(m, s) ==
  LET k == Cardinality({i \in 1 .. Len(m) : m[i].conv_ < s.conv_})
  IN  [j \in 1 .. (Len(m) + 1) |->
         IF j <= k THEN m[j] ELSE IF j = k + 1 THEN s ELSE m[j - 1]]

\* connections_[conv] = conn: the entry is replaced, or inserted when absent.
MapAssign(m, s) ==
  LET i == MapFind(m, s.conv_)
  IN  IF i # 0 THEN [m EXCEPT ![i] = s] ELSE MapInsertNew(m, s)

MapKeys(m) == {m[i].conv_ : i \in 1 .. Len(m)}
MapGet(m, conv) == m[MapFind(m, conv)]

\* KCPServer::remove_connection.
remove_connection(m, conv) ==
  LET i == MapFind(m, conv)
  IN  IF i # 0 THEN MapEraseAt(m, i) ELSE m

\* KCPServer::on_connection_close, run for every invocation of the server's
\* own close callback among the events cbs.
RECURSIVE on_connection_close(_, _, _)
on_connection_close(m, cbs, i) ==
  IF i > Len(cbs) THEN m
  ELSE on_connection_close(
         IF cbs[i].cb = "close" /\ cbs[i].kind = "server"
           THEN remove_connection(m, cbs[i].conv) ELSE m,
         cbs, i + 1)

\* What the registered new-connection callback does with the session:
\* the lambda of examples/server_main.cpp ("example") sets four parameters
\* of the session's engine and replaces both callbacks; a user's callback
\* may call close() on the session ("closer"), or give it a data callback
\* that does and leave the server's close callback in place ("setcloser").
NewConnectionCallback(kind, s) ==
  IF kind = "example"
    THEN LET s1 == set_dead_link(set_stream_mode(set_fastresend(set_minrto(s, 30), 2), 0), 20)
         IN  set_close_callback(set_data_callback(s1, "example"), "user")
  ELSE IF kind = "closer" THEN close(s, 0).s
  ELSE IF kind = "setcloser" THEN set_data_callback(s, "closer")
  ELSE s
\* The callbacks of the session that run inside the new-connection callback.
NewConnectionCallbackEvents(kind, s) ==
  IF kind = "closer" THEN close(s, 0).cb ELSE <<>>

\* The lookup of find_or_create_connection: the entry's position, 0 if absent.
FindExisting_Never(m, conv) == 0
FindExisting(m, conv) == MapFind(m, conv)

\* What find_or_create_connection does to the entry it finds: it returns
\* it->second as it is, whatever the datagram's source address.
ExistingEntry_Rebind(c, addr) == [c EXCEPT !.addr_ = addr]
ExistingEntry(c, addr) == c

\* KCPServer::find_or_create_connection: the table afterwards, the
\* callbacks invoked, the session whose pointer is returned (conn) and
\* whether the table still holds it (erased: the new-connection callback
\* has closed it, and the server's close callback has erased the entry).
\* The "new" event notes what the callback finds: whether the session is in
\* the table, and its state.
find_or_create_connection(m, conv, addr, now, newcb, cfg) ==
  IF FindExisting(m, conv) # 0
    THEN [tab |-> [m EXCEPT ![FindExisting(m, conv)] = ExistingEntry(@, addr)],
          cb |-> <<>>, created |-> FALSE,
          conn |-> ExistingEntry(m[FindExisting(m, conv)], addr), erased |-> FALSE]
  ELSE LET c0 == init_kcp(KCPConnection(conv, TRUE, addr), cfg)
           c1 == set_state(c0, "CONNECTED")
           c2 == update_active_time(c1, now)
           c3 == set_close_callback(set_data_callback(c2, "server"), "server")
           m1 == IF MapFind(m, conv) # 0 THEN MapAssign(m, c3) ELSE MapInsertNew(m, c3)
           i  == MapFind(m1, conv)
           c4 == NewConnectionCallback(newcb, c3)
           evs == NewConnectionCallbackEvents(newcb, c3)
           m2 == on_connection_close([m1 EXCEPT ![i] = c4], evs, 1)
       IN  IF newcb # "none"
             THEN [tab |-> m2,
                   cb |-> <<[cb |-> "new", conv |-> conv,
                             stored |-> MapFind(m1, conv) # 0,
                             state |-> c3.state_]>> \o evs,
                   created |-> TRUE, conn |-> c4, erased |-> MapFind(m2, conv) = 0]
             ELSE [tab |-> m1, cb |-> <<>>, created |-> TRUE,
                   conn |-> c3, erased |-> FALSE]

\* The calls handle_udp_data makes on a session after the table has erased
\* it, that is on an object that may be destroyed: all three when the
\* new-connection callback closed it, the rest of recv()'s loop when a data
\* callback did.
UsedAfterErase(erased, tab, conv) ==
  IF erased THEN <<"update_active_time", "input", "recv">>
  ELSE IF MapFind(tab, conv) = 0 THEN <<"recv">>
  ELSE <<>>

\* The length test of handle_udp_data.
TooShort_Off(len) == len < MinHeaderLen - 1
TooShort(len) == len < MinHeaderLen

\* What handle_udp_data leaves, given the result f of
\* find_or_create_connection and the results r1 of input() and r2 of recv()
\* on the session it returned.  A close callback of the server that ran
\* inside recv() erases the entry.  late puts the new-connection callback
\* after the callbacks of the drain.
HandleResult(f, r1, r2, conv, late) ==
  LET t2 == on_connection_close(
              IF f.erased THEN f.tab
              ELSE [f.tab EXCEPT ![MapFind(f.tab, conv)] = r2.s],
              r2.cb, 1)
  IN  [tab |-> t2,
       cb |-> IF late THEN r2.cb \o f.cb ELSE f.cb \o r2.cb,
       out |-> r2.out, created |-> f.created, input_ret |-> r1.ret,
       gone |-> UsedAfterErase(f.erased, t2, conv)]

\* The three calls handle_udp_data makes on the pointer that
\* find_or_create_connection returned, whether or not the table still
\* holds the session: update_active_time, input, recv.
HandleDrain(f, r1, dg, uvret, late) ==
  HandleResult(f, r1, recv(r1.s, uvret), dg.conv, late)
HandleOn(f, dg, now, uvret, late) ==
  HandleDrain(f, input(update_active_time(f.conn, now), dg), dg, uvret, late)

\* handle_udp_data with the new-connection callback run after the drain.
handle_udp_data_NotifyLate(m, dg, now, newcb, cfg, uvret) ==
  IF TooShort(dg.len)
    THEN [tab |-> m, cb |-> <<>>, out |-> <<>>, created |-> FALSE, input_ret |-> 0,
          gone |-> <<>>]
  ELSE HandleOn(find_or_create_connection(m, dg.conv, dg.addr, now, newcb, cfg),
                dg, now, uvret, TRUE)

\* KCPServer::handle_udp_data.  input_ret is what input() returned, which
\* the code does not look at.
handle_udp_data(m, dg, now, newcb, cfg, uvret) ==
  IF TooShort(dg.len)
    THEN [tab |-> m, cb |-> <<>>, out |-> <<>>, created |-> FALSE, input_ret |-> 0,
          gone |-> <<>>]
  ELSE HandleOn(find_or_create_connection(m, dg.conv, dg.addr, now, newcb, cfg),
                dg, now, uvret, FALSE)

\* What erasing through an iterator whose node is already freed can do
\* (update_connections erases `it` after close() has run the server's own
\* close callback, which erased the same node): abort the process, act as
\* if nothing happened, end the loop, or unlink the following node too.
UBOutcomes == {"crash", "lucky", "skip", "extra"}

\* What a turn of the loop of KCPServer::update_connections leaves, given
\* the result r of the call that ran callbacks on the entry at i: a close
\* callback of the server among them has erased the entry (dead).  erase
\* tells whether the loop goes on to erase through its iterator; gone lists
\* what the loop does with a session and its node after a data callback
\* inside recv() has closed the session and the node has been erased.
SweepTurnResult(m, i, r, out, erase, visits) ==
  LET m1 == on_connection_close([m EXCEPT ![i] = r.s], r.cb, 1)
  IN  [tab |-> m1, cb |-> r.cb, out |-> out \o r.out, erase |-> erase,
       dead |-> MapFind(m1, m[i].conv_) = 0, visits |-> visits,
       gone |-> IF ~erase /\ MapFind(m1, m[i].conv_) = 0
                  THEN <<"recv", "++it">> ELSE <<>>]

\* One turn of the loop, on the entry at i: a timed-out session is closed,
\* any other is updated and drained.  visits lists the calls made on the
\* session, with the timestamp each is given or was selected by.
SweepTurn(m, i, now, timeout, uvret) ==
  IF is_timeout(m[i], now, timeout)
    THEN SweepTurnResult(m, i, close(m[i], 0), <<>>, TRUE,
                         <<[conv |-> m[i].conv_, op |-> "close", now |-> now]>>)
    ELSE LET r1 == update(m[i], now)
         IN  SweepTurnResult(m, i, recv(r1.s, uvret), r1.out, FALSE,
                             <<[conv |-> m[i].conv_, op |-> "update", now |-> now],
                               [conv |-> m[i].conv_, op |-> "recv", now |-> now]>>)

\* Where the loop stands after the turn t: `it = connections_.erase(it)` or
\* `++it` on a live node; on a node that is already erased, one of the
\* outcomes of UBOutcomes.
SweepAdvance(t, i, ub) ==
  IF ~t.dead
    THEN [tab |-> IF t.erase THEN MapEraseAt(t.tab, i) ELSE t.tab,
          i |-> IF t.erase THEN i ELSE i + 1, stop |-> FALSE]
  ELSE IF ub = "lucky" THEN [tab |-> t.tab, i |-> i, stop |-> FALSE]
  ELSE IF ub = "extra" /\ i <= Len(t.tab)
    THEN [tab |-> MapEraseAt(t.tab, i), i |-> i, stop |-> FALSE]
  ELSE [tab |-> t.tab, i |-> i, stop |-> TRUE]

\* The turn t followed by the rest of the loop.
SweepJoin(t, rest) ==
  [tab |-> rest.tab, cb |-> t.cb \o rest.cb, out |-> t.out \o rest.out,
   crashed |-> rest.crashed, ub |-> t.dead \/ rest.ub,
   visits |-> t.visits \o rest.visits, gone |-> t.gone \o rest.gone]

\* The loop of KCPServer::update_connections from position i on (SweepFrom),
\* and from where the turn t has left it (SweepOn).
RECURSIVE SweepFrom(_, _, _, _, _, _)
RECURSIVE SweepOn(_, _, _, _, _, _)
SweepOn(t, a, now, timeout, ub, uvret) ==
  SweepJoin(t, IF a.stop
                 THEN [tab |-> a.tab, cb |-> <<>>, out |-> <<>>,
                       crashed |-> ub = "crash", ub |-> TRUE,
                       visits |-> <<>>, gone |-> <<>>]
                 ELSE SweepFrom(a.tab, a.i, now, timeout, ub, uvret))
SweepFrom(m, i, now, timeout, ub, uvret) ==
  IF i > Len(m)
    THEN [tab |-> m, cb |-> <<>>, out |-> <<>>, crashed |-> FALSE, ub |-> FALSE,
          visits |-> <<>>, gone |-> <<>>]
  ELSE LET t == SweepTurn(m, i, now, timeout, uvret)
       IN  SweepOn(t, SweepAdvance(t, i, ub), now, timeout, ub, uvret)

\* KCPServer::update_connections.
update_connections(m, now, timeout, ub, uvret) == SweepFrom(m, 1, now, timeout, ub, uvret)

\* No KCPConnection object.
NoConn == [conv_ |-> 0, udp_handle_ |-> FALSE, addr_ |-> "none",
           state_ |-> "none", last_active_time_ |-> 0,
           kcp_ |-> ikcp_create(0),
           data_callback_ |-> "none", close_callback_ |-> "none", nclose |-> 0]
NoProbe == [t0 |-> 0, timeout |-> 0, now |-> 0, result |-> FALSE, done |-> FALSE]
\* The handler or call that ran last: its name, the conv, length, source
\* address and payload of its datagram, an argument and its result, and
\* the calls it made on sessions of the table, and those it made on a
\* session that the table had erased by then.
NoEv == [op |-> "init", conv |-> 0, len |-> 0, arg |-> "none", ret |-> 0,
         addr |-> "none", data |-> "none", visits |-> <<>>,
   gone |-> <<>>]
Ev(op, conv, len, arg) ==
  [op |-> op, conv |-> conv, len |-> len, arg |-> arg, ret |-> 0,
   addr |-> "none", data |-> "none", visits |-> <<>>,
   gone |-> <<>>]
EvRet(op, conv, arg, ret) ==
  [op |-> op, conv |-> conv, len |-> 0, arg |-> arg, ret |-> ret,
   addr |-> "none", data |-> "none", visits |-> <<>>,
   gone |-> <<>>]

\* KCPClient::KCPClient: not running, the default tunables, connection_ the
\* null pointer (NoConn).  registered and closes are history: whether the
\* user has called set_data_callback, and how often the close callback of
\* the current or last session has run.
NoClient == [connection_ |-> NoConn, running_ |-> FALSE, recv_active |-> FALSE,
             timer_active |-> FALSE, kcp_config_ |-> "lowlatency",
             registered |-> FALSE, closes |-> 0, destroyed |-> FALSE]
NoWire == [fwd |-> <<>>, back |-> <<>>]
NoHist == [sent |-> <<>>, delivered |-> <<>>, refused |-> FALSE, dropped |-> 0]
\* No thread but the one that constructs the objects, which is in no handler.
NoThreads == [loop |-> "idle", sender |-> "idle", signal |-> "idle",
              raced |-> FALSE, crashed |-> FALSE,
              dg |-> [len |-> 0, conv |-> 0, cmd |-> "bad", data |-> "none",
                      addr |-> "none"],
              msg |-> "none"]

\* The tunables after KCPServer::KCPServer; no client, no peer, no traffic.
InitRest ==
  /\ kcp_config_ = "lowlatency"
  /\ client = NoClient
  /\ peer = NoConn
  /\ wire = NoWire
  /\ hist = NoHist
  /\ threads = NoThreads

Alive == ~crashed /\ ~destroyed

\* KCPServer::KCPServer.
Init ==
  /\ running_ = FALSE
  /\ timeout_ = DefaultTimeout
  /\ connections_ = <<>>
  /\ new_connection_callback_ = "none"
  /\ recv_active = FALSE
  /\ timer_active = FALSE
  /\ clock = ClockStart
  /\ crashed = FALSE
  /\ destroyed = FALSE
  /\ halted = FALSE
  /\ ev = NoEv
  /\ cb_log = <<>>
  /\ out_log = <<>>
  /\ conn = NoConn
  /\ probe = NoProbe
  /\ InitRest

\* KCPServer::bind_and_listen; res is the first libuv call that fails.
BindResults == {"ok", "bad_ip", "bind_fail", "recv_fail", "timer_fail"}
BindAndListen(res) ==
  /\ Alive
  /\ recv_active' = (recv_active \/ res \in {"ok", "timer_fail"})
  /\ timer_active' = (timer_active \/ res = "ok")
  /\ running_' = (running_ \/ res = "ok")
  /\ halted' = (halted /\ res # "ok")
  /\ ev' = Ev("bind_and_listen", 0, 0, res)
  /\ cb_log' = <<>>
  /\ out_log' = <<>>
  /\ UNCHANGED <<timeout_, connections_, new_connection_callback_, clock,
                 crashed, destroyed, conn, probe, restVars>>

\* stop() returning without a call of uv_udp_recv_stop.
StopReception_Skipped(running, active) == active

\* What KCPServer::stop does to the timer and to the reception: nothing
\* when the server is not running, uv_timer_stop and uv_udp_recv_stop
\* otherwise.
StopTimer(running, active) == IF running THEN FALSE ELSE active
StopReception(running, active) == IF running THEN FALSE ELSE active

\* KCPServer::stop: the table is not touched.
Stop ==
  /\ Alive
  /\ running_' = FALSE
  /\ timer_active' = StopTimer(running_, timer_active)
  /\ recv_active' = StopReception(running_, recv_active)
  /\ halted' = (halted \/ running_)
  /\ ev' = Ev("stop", 0, 0, IF running_ THEN "running" ELSE "stopped")
  /\ cb_log' = <<>>
  /\ out_log' = <<>>
  /\ UNCHANGED <<timeout_, connections_, new_connection_callback_, clock,
                 crashed, destroyed, conn, probe, restVars>>

\* KCPServer::~KCPServer: stop(), then connections_.clear(), which destroys
\* the sessions without calling close() on them.
Destroy ==
  /\ Alive
  /\ running_' = FALSE
  /\ timer_active' = StopTimer(running_, timer_active)
  /\ recv_active' = StopReception(running_, recv_active)
  /\ halted' = (halted \/ running_)
  /\ connections_' = <<>>
  /\ destroyed' = TRUE
  /\ ev' = Ev("destroy", 0, 0, IF running_ THEN "running" ELSE "stopped")
  /\ cb_log' = <<>>
  /\ out_log' = <<>>
  /\ UNCHANGED <<timeout_, new_connection_callback_, clock, crashed, conn, probe, restVars>>

\* KCPServer::set_timeout.
SetTimeout(t) ==
  /\ Alive
  /\ timeout_' = t
  /\ ev' = Ev("set_timeout", 0, 0, "none")
  /\ cb_log' = <<>>
  /\ out_log' = <<>>
  /\ UNCHANGED <<halted, running_, connections_, new_connection_callback_, recv_active,
                 timer_active, clock, crashed, destroyed, conn, probe, restVars>>

\* KCPServer::set_kcp_config.
SetKcpConfig(cfg) ==
  /\ Alive
  /\ kcp_config_' = cfg
  /\ ev' = Ev("set_kcp_config", 0, 0, cfg)
  /\ cb_log' = <<>>
  /\ out_log' = <<>>
  /\ UNCHANGED <<halted, running_, timeout_, connections_, new_connection_callback_,
                 recv_active, timer_active, clock, crashed, destroyed, conn, probe,
                 client, peer, wire, hist, threads>>

\* KCPServer::set_new_connection_callback.
SetNewConnectionCallback(k) ==
  /\ Alive
  /\ new_connection_callback_' = k
  /\ ev' = Ev("set_new_connection_callback", 0, 0, k)
  /\ cb_log' = <<>>
  /\ out_log' = <<>>
  /\ UNCHANGED <<halted, running_, timeout_, connections_, recv_active,
                 timer_active, clock, crashed, destroyed, conn, probe, restVars>>

\* A millisecond passes on the steady clock.
Tick ==
  /\ Alive
  /\ Sub32(clock, ClockStart) < MaxTicks
  /\ clock' = Add32(clock, 1)
  /\ ev' = Ev("tick", 0, 0, "none")
  /\ cb_log' = <<>>
  /\ out_log' = <<>>
  /\ UNCHANGED <<halted, running_, timeout_, connections_, new_connection_callback_,
                 recv_active, timer_active, crashed, destroyed, conn, probe, restVars>>

\* The datagrams the socket can deliver: nread, the leading conv, the KCP
\* command and payload, and the source address.
DatagramsFrom(addrs) ==
  [len : {MinHeaderLen}, conv : Convs, cmd : {"push"}, data : Payloads, addr : addrs]
  \cup [len : {MinHeaderLen}, conv : Convs, cmd : {"ack", "bad"}, data : {"none"}, addr : addrs]
  \cup [len : {0, MinHeaderLen - 1}, conv : Convs, cmd : {"bad"}, data : {"none"}, addr : addrs]

\* KCPServer::on_udp_recv followed by handle_udp_data, whose result r
\* on_udp_recv_done records.  Calls on a session that has been destroyed are
\* undefined: the process aborts or goes on.
on_udp_recv_done(dg, r) ==
  /\ connections_' = r.tab
  /\ cb_log' = r.cb
  /\ out_log' = r.out
  /\ ev' = [Ev("udp", dg.conv, dg.len, dg.cmd) EXCEPT
              !.addr = dg.addr, !.data = dg.data, !.ret = r.input_ret,
              !.gone = r.gone]
  /\ crashed' \in IF r.gone # <<>> THEN BOOLEAN ELSE {crashed}
on_udp_recv(dg, uvret) ==
  /\ Alive
  /\ recv_active
  /\ on_udp_recv_done(dg,
        IF dg.len <= 0
          THEN [tab |-> connections_, cb |-> <<>>, out |-> <<>>,
                created |-> FALSE, input_ret |-> 0, gone |-> <<>>]
          ELSE handle_udp_data(connections_, dg, clock,
                               new_connection_callback_, kcp_config_, uvret))
  /\ UNCHANGED <<halted, running_, timeout_, new_connection_callback_, recv_active,
                 timer_active, clock, destroyed, conn, probe, kcp_config_>>

\* A datagram arrives from a peer outside the model.
OnUdpRecv(dg, uvret) == on_udp_recv(dg, uvret) /\ UNCHANGED <<client, peer, wire, hist, threads>>

\* KCPServer::on_timer, that is update_connections, whose result r
\* on_timer_done records.
on_timer_done(r) ==
  /\ connections_' = r.tab
  /\ cb_log' = r.cb
  /\ out_log' = r.out
  /\ crashed' = r.crashed
  /\ ev' = [Ev("sweep", 0, 0, IF r.ub THEN "ub" ELSE "none") EXCEPT
              !.visits = r.visits, !.gone = r.gone]
on_timer(ub, uvret) ==
  /\ Alive
  /\ timer_active
  /\ on_timer_done(update_connections(connections_, clock, timeout_, ub, uvret))
  /\ UNCHANGED <<halted, running_, timeout_, new_connection_callback_, recv_active,
                 timer_active, clock, destroyed, conn, probe, kcp_config_>>

\* The timer fires with no peer of the model listening.
OnTimer(ub, uvret) == on_timer(ub, uvret) /\ UNCHANGED <<client, peer, wire, hist, threads>>

\* User code calls close() on a session it was handed by a callback.
UserClose(c) ==
  /\ Alive
  /\ MapFind(connections_, c) # 0
  /\ LET i == MapFind(connections_, c)
         r == close(connections_[i], 0)
     IN  /\ connections_' = on_connection_close([connections_ EXCEPT ![i] = r.s], r.cb, 1)
         /\ cb_log' = r.cb
         /\ out_log' = r.out
         /\ ev' = Ev("close", c, 0, connections_[i].state_)
  /\ UNCHANGED <<halted, running_, timeout_, new_connection_callback_, recv_active,
                 timer_active, clock, crashed, destroyed, conn, probe, restVars>>

Next ==
  \/ \E res \in BindResults : BindAndListen(res)
  \/ Stop
  \/ Destroy
  \/ \E t \in Timeouts : SetTimeout(t)
  \/ \E k \in NewConnectionCallbacks : SetNewConnectionCallback(k)
  \/ Tick
  \/ \E dg \in DatagramsFrom({"peerA"}), uvret \in {0, -1} : OnUdpRecv(dg, uvret)
  \/ \E ub \in UBOutcomes, uvret \in {0, -1} : OnTimer(ub, uvret)
  \/ \E c \in Convs : UserClose(c)

Spec == Init /\ [][Next]_vars

\* The outcomes of bind_and_listen on libuv handles that were initialised
\* by the constructor and are never closed: uv_timer_start fails only for a
\* closing handle or a null callback, which this server does not give it.
BindResultsInitialised == BindResults \ {"timer_fail"}

\* The traffic of a peer that opens two sessions, and a read of no bytes.
StopDatagrams ==
  {dg \in DatagramsFrom({"peerA"}) :
     /\ dg.conv \in {0, MaxConv}
     /\ dg.len = 0 \/ (dg.cmd = "push" /\ dg.data = "hello")}

\* A server on such handles that is started, stopped and started again
\* while datagrams arrive and the timer fires.  No session times out here
\* (the timeout stays at its default), so the sweep never erases.
NextStop ==
  \/ \E res \in BindResultsInitialised : BindAndListen(res)
  \/ Stop
  \/ Destroy
  \/ \E k \in NewConnectionCallbacks : SetNewConnectionCallback(k)
  \/ Tick
  \/ \E dg \in StopDatagrams : OnUdpRecv(dg, 0)
  \/ OnTimer("lucky", 0)
  \/ \E c \in Convs : UserClose(c)

SpecStop == Init /\ [][NextStop]_vars

\* New-connection callbacks of a user that close the session they are
\* given, at once or from the data callback they register.
ReenterCallbacks == {"none", "closer", "setcloser"}

\* The first segment of a peer's message, for either conv.
ReenterDatagrams ==
  {dg \in DatagramsFrom({"peerA"}) : dg.cmd = "push" /\ dg.data = "hello"}

\* A running server whose user closes sessions from inside the callbacks.
NextReenter ==
  \/ BindAndListen("ok")
  \/ \E k \in ReenterCallbacks : SetNewConnectionCallback(k)
  \/ Tick
  \/ \E dg \in ReenterDatagrams : OnUdpRecv(dg, 0)
  \/ \E ub \in UBOutcomes : OnTimer(ub, 0)

SpecReenter == Init /\ [][NextReenter]_vars

\* The server state that a lone connection or client never touches.
ServerIdle ==
  /\ running_ = FALSE
  /\ timeout_ = DefaultTimeout
  /\ connections_ = <<>>
  /\ new_connection_callback_ = "none"
  /\ recv_active = FALSE
  /\ timer_active = FALSE
  /\ clock = ClockStart
  /\ crashed = FALSE
  /\ destroyed = FALSE
  /\ halted = FALSE
  /\ kcp_config_ = "lowlatency"

(***************************************************************************)
(* A KCPConnection used on its own: the object after its constructor,      *)
(* set_state, the callback setters and any traffic, then its methods in    *)
(* any order.                                                              *)
(***************************************************************************)
\* The conv the connection is constructed with.
ConnConv == MaxConv
SeqsUpTo(S, n) == UNION {[1 .. k -> S] : k \in 0 .. n}

InitConn ==
  /\ running_ = FALSE
  /\ timeout_ = DefaultTimeout
  /\ connections_ = <<>>
  /\ new_connection_callback_ = "none"
  /\ recv_active = FALSE
  /\ timer_active = FALSE
  /\ clock = ClockStart
  /\ crashed = FALSE
  /\ destroyed = FALSE
  /\ halted = FALSE
  /\ ev = NoEv
  /\ cb_log = <<>>
  /\ out_log = <<>>
  /\ probe = NoProbe
  /\ InitRest
  /\ \E h \in BOOLEAN, st \in States, snd \in SeqsUpTo({"hello"}, MaxQueue),
        rcv \in SeqsUpTo(Payloads, MaxQueue),
        dcb \in {"none", "server", "example"},
        ccb \in {"none", "user", "reenter"} :
       conn = [KCPConnection(ConnConv, h, "peerA") EXCEPT
                 !.state_ = st, !.kcp_.snd = snd, !.kcp_.rcv = rcv,
                 !.data_callback_ = dcb, !.close_callback_ = ccb]

\* The outcome r of a method of conn.
ConnStep(op, r) ==
  /\ conn' = r.s
  /\ cb_log' = r.cb
  /\ out_log' = r.out
  /\ ev' = EvRet(op, conn.conv_, conn.state_, r.ret)
  /\ UNCHANGED <<serverVars, probe, restVars>>

ConnSend(m) == ConnStep("send", send(conn, m))
ConnSendDirect(m, uvret) == ConnStep("send_udp_direct", send_udp_direct(conn, m, uvret))
ConnInput(dg) == ConnStep("input", input(conn, dg))
ConnUpdate == ConnStep("update", update(conn, clock))
ConnRecv(uvret) ==
  LET r == recv(conn, uvret)
  IN  ConnStep("recv", [r EXCEPT !.ret = IF r.ret THEN 1 ELSE 0])
ConnClose == ConnStep("close", close(conn, 0))

NextConn ==
  \/ \E m \in Payloads : ConnSend(m)
  \/ \E m \in Payloads, uvret \in {0, -1} : ConnSendDirect(m, uvret)
  \/ \E dg \in DatagramsFrom({"peerA"}) : ConnInput(dg)
  \/ ConnUpdate
  \/ \E uvret \in {0, -1} : ConnRecv(uvret)
  \/ ConnClose

SpecConn == InitConn /\ [][NextConn]_vars

(***************************************************************************)
(* A KCPConnection from its constructor on, with every public method open  *)
(* to its user: the setters as well as the traffic methods.                *)
(***************************************************************************)
InitApi ==
  /\ ServerIdle
  /\ ev = NoEv /\ cb_log = <<>> /\ out_log = <<>>
  /\ probe = NoProbe /\ client = NoClient /\ peer = NoConn
  /\ wire = NoWire /\ hist = NoHist /\ threads = NoThreads
  /\ \E h \in BOOLEAN : conn = KCPConnection(ConnConv, h, "peerA")

\* The outcome of a setter of conn.
ConnSet(op, arg, s) ==
  /\ conn' = s
  /\ cb_log' = <<>>
  /\ out_log' = <<>>
  /\ ev' = [EvRet(op, conn.conv_, conn.state_, 0) EXCEPT !.data = arg]
  /\ UNCHANGED <<serverVars, probe, restVars>>

ConnSetState(st) ==
  /\ conn.nclose < MaxCloses
  /\ ConnSet("set_state", st, set_state(conn, st))
ConnSetDataCallback(k) == ConnSet("set_data_callback", k, set_data_callback(conn, k))
ConnSetCloseCallback(k) == ConnSet("set_close_callback", k, set_close_callback(conn, k))

NextApi ==
  \/ NextConn
  \/ \E st \in States : ConnSetState(st)
  \/ \E k \in {"none", "server"} : ConnSetDataCallback(k)
  \/ \E k \in {"none", "user"} : ConnSetCloseCallback(k)

SpecApi == InitApi /\ [][NextApi]_vars

(***************************************************************************)
(* is_timeout() on its own: a session last active at t0, asked at now.     *)
(***************************************************************************)
InitTimeout ==
  /\ running_ = FALSE
  /\ timeout_ = DefaultTimeout
  /\ connections_ = <<>>
  /\ new_connection_callback_ = "none"
  /\ recv_active = FALSE
  /\ timer_active = FALSE
  /\ clock = ClockStart
  /\ crashed = FALSE
  /\ destroyed = FALSE
  /\ halted = FALSE
  /\ ev = NoEv
  /\ cb_log = <<>>
  /\ out_log = <<>>
  /\ conn = NoConn
  /\ InitRest
  /\ \E t0 \in Timestamps, timeout \in Timestamps :
       probe = [t0 |-> t0, timeout |-> timeout, now |-> 0,
                result |-> FALSE, done |-> FALSE]

IsTimeoutAt(now) ==
  /\ ~probe.done
  /\ probe' = [probe EXCEPT
       !.now = now,
       !.result = is_timeout(update_active_time(NoConn, probe.t0), now, probe.timeout),
       !.done = TRUE]
  /\ UNCHANGED <<serverVars, ev, cb_log, out_log, conn, restVars>>

NextTimeout == \E now \in Timestamps : IsTimeoutAt(now)

SpecTimeout == InitTimeout /\ [][NextTimeout]_vars

(***************************************************************************)
(* Two sessions A (conn) and B (peer) with the same conv, joined by a      *)
(* transport that loses and reorders nothing.  A's engine output travels   *)
(* forward, B's acknowledgements travel back; A's engine does not          *)
(* retransmit while a datagram or its acknowledgement is in flight.        *)
(***************************************************************************)
\* The uint32_t that the first four bytes of a user's message spell: the
\* messages of the model are text, whose first bytes are no conv in use.
PayloadId(m) == MaxConv + 1
\* What a receiver reads as *(uint32_t *)data from a buffer given to
\* output(): a segment of the engine starts with the engine's conv, a
\* direct send starts with the user's bytes.
LeadingId(buf) == IF buf.cmd = "raw" THEN PayloadId(buf.data) ELSE buf.conv

\* What uv_udp_send puts on the transport for the entry e of an out log: a
\* KCP segment is a header and its payload; a direct send is the message
\* alone, four bytes for the example's PONG.
Datagram(e, from) ==
  [len |-> IF e.buf.cmd = "raw" THEN 4 ELSE MinHeaderLen,
   conv |-> LeadingId(e.buf),
   cmd |-> IF e.buf.cmd = "raw" THEN "bad" ELSE e.buf.cmd,
   data |-> e.buf.data, addr |-> from]
\* The datagrams of the out log out that are addressed to `to`.
RECURSIVE Sent(_, _, _, _)
Sent(out, i, to, from) ==
  IF i > Len(out) THEN <<>>
  ELSE (IF out[i].to = to THEN <<Datagram(out[i], from)>> ELSE <<>>)
       \o Sent(out, i + 1, to, from)
\* The acknowledgement the engine of the session reached by dg sends.
AckOf(dg, from) ==
  [len |-> MinHeaderLen, conv |-> dg.conv, cmd |-> "ack", data |-> "none", addr |-> from]

\* The data messages among the callback events cbs, in order.
RECURSIVE DataOf(_, _)
DataOf(cbs, i) ==
  IF i > Len(cbs) THEN <<>>
  ELSE (IF cbs[i].cb = "data" THEN <<cbs[i].data>> ELSE <<>>) \o DataOf(cbs, i + 1)

\* Both ends as KCPClient::connect and find_or_create_connection leave a
\* session: configured and CONNECTED; B has a data callback that only reads.
InitPair ==
  /\ ServerIdle
  /\ ev = NoEv /\ cb_log = <<>> /\ out_log = <<>>
  /\ probe = NoProbe /\ client = NoClient /\ wire = NoWire /\ hist = NoHist
  /\ threads = NoThreads
  /\ conn = set_state(init_kcp(KCPConnection(ConnConv, TRUE, "peerB"), "lowlatency"),
                      "CONNECTED")
  /\ peer = set_data_callback(
              set_state(init_kcp(KCPConnection(ConnConv, TRUE, "peerA"), "lowlatency"),
                        "CONNECTED"), "user")

\* The user calls send() on A.
PairSend(m) ==
  /\ Len(hist.sent) < MaxMsgs
  /\ LET r == send(conn, m)
     IN  /\ conn' = r.s
         /\ hist' = [hist EXCEPT !.sent = IF r.ret = 0 THEN Append(@, m) ELSE @,
                                 !.refused = @ \/ r.ret < 0]
         /\ ev' = EvRet("pair_send", conn.conv_, conn.state_, r.ret)
         /\ cb_log' = r.cb
         /\ out_log' = r.out
  /\ UNCHANGED <<serverVars, probe, kcp_config_, threads, client, peer, wire>>

\* A's periodic update(): what the engine flushes goes onto the transport.
PairUpdate ==
  /\ wire = NoWire
  /\ LET r == update(conn, clock)
     IN  /\ conn' = r.s
         /\ wire' = [wire EXCEPT !.fwd = Sent(r.out, 1, "peerB", "peerA")]
         /\ ev' = EvRet("pair_update", conn.conv_, conn.state_, r.ret)
         /\ cb_log' = r.cb
         /\ out_log' = r.out
  /\ UNCHANGED <<serverVars, probe, kcp_config_, threads, client, peer, hist>>

\* B's receive handler: input() then recv(), as handle_udp_data does.  B's
\* engine acknowledges the segment it has taken.
PairDeliver ==
  /\ wire.fwd # <<>>
  /\ LET dg == Head(wire.fwd)
         r1 == input(peer, dg)
         r2 == recv(r1.s, 0)
         taken == Len(r1.s.kcp_.rcv) > Len(peer.kcp_.rcv)
     IN  /\ peer' = r2.s
         /\ wire' = [fwd |-> Tail(wire.fwd),
                     back |-> IF taken THEN Append(wire.back, AckOf(dg, "peerB"))
                                       ELSE wire.back]
         /\ hist' = [hist EXCEPT !.delivered = @ \o DataOf(r2.cb, 1)]
         /\ ev' = [EvRet("pair_deliver", peer.conv_, dg.cmd, r1.ret) EXCEPT
                     !.data = dg.data]
         /\ cb_log' = r2.cb
         /\ out_log' = r2.out
  /\ UNCHANGED <<serverVars, probe, kcp_config_, threads, client, conn>>

\* A's receive handler takes an acknowledgement.
PairAck ==
  /\ wire.back # <<>>
  /\ LET r1 == input(conn, Head(wire.back))
         r2 == recv(r1.s, 0)
     IN  /\ conn' = r2.s
         /\ wire' = [wire EXCEPT !.back = Tail(@)]
         /\ ev' = EvRet("pair_ack", conn.conv_, conn.state_, r1.ret)
         /\ cb_log' = r2.cb
         /\ out_log' = r2.out
  /\ UNCHANGED <<serverVars, probe, kcp_config_, threads, client, peer, hist>>

\* B's periodic handler: update() then recv(), as update_connection does.
PairPeerUpdate ==
  /\ LET r1 == update(peer, clock)
         r2 == recv(r1.s, 0)
     IN  /\ peer' = r2.s
         /\ hist' = [hist EXCEPT !.delivered = @ \o DataOf(r2.cb, 1)]
         /\ ev' = EvRet("pair_peer_update", peer.conv_, peer.state_, r1.ret)
         /\ cb_log' = r2.cb
         /\ out_log' = r1.out \o r2.out
  /\ UNCHANGED <<serverVars, probe, kcp_config_, threads, client, conn, wire>>

NextPair ==
  \/ \E m \in Payloads : PairSend(m)
  \/ PairUpdate
  \/ PairDeliver
  \/ PairAck
  \/ PairPeerUpdate
  \/ Tick

SpecPair == InitPair /\ [][NextPair]_vars

\* The same pair when A's user also sends a message longer than B's
\* recv_buffer_ (ikcp_send takes up to 127 fragments of mtu - 24 bytes).
DrainPayloads == {"hello", "big"}

NextDrain ==
  \/ \E m \in DrainPayloads : PairSend(m)
  \/ PairUpdate
  \/ PairDeliver
  \/ PairAck
  \/ PairPeerUpdate
  \/ Tick

SpecDrain == InitPair /\ [][NextDrain]_vars

(***************************************************************************)
(* The same two sessions over a network that may drop datagrams, with A's  *)
(* user sending on the direct path as well.                                *)
(***************************************************************************)
\* What the user of A sends on the direct path: the example's heartbeat.
DirectPayloads == {"PING"}

\* The user calls send_udp_direct() on A; what uv_udp_send accepted travels.
PairSendDirect(m, uvret) ==
  /\ Len(wire.fwd) < MaxFlight
  /\ LET r == send_udp_direct(conn, m, uvret)
     IN  /\ conn' = r.s
         /\ wire' = [wire EXCEPT !.fwd = IF uvret = 0
                                          THEN @ \o Sent(r.out, 1, "peerB", "peerA")
                                          ELSE @]
         /\ ev' = [EvRet("pair_send_direct", conn.conv_,
                         IF uvret = 0 THEN "accepted" ELSE "refused", r.ret)
                     EXCEPT !.data = m]
         /\ cb_log' = r.cb
         /\ out_log' = r.out
  /\ UNCHANGED <<serverVars, probe, kcp_config_, threads, client, peer, hist>>

\* The network drops the oldest datagram of one direction.
PairLose(dir) ==
  /\ hist.dropped < MaxDrops
  /\ wire[dir] # <<>>
  /\ wire' = [wire EXCEPT ![dir] = Tail(@)]
  /\ hist' = [hist EXCEPT !.dropped = @ + 1]
  /\ ev' = [Ev("pair_lose", Head(wire[dir]).conv, Head(wire[dir]).len,
               Head(wire[dir]).cmd) EXCEPT !.data = Head(wire[dir]).data]
  /\ cb_log' = <<>> /\ out_log' = <<>>
  /\ UNCHANGED <<serverVars, probe, kcp_config_, threads, client, conn, peer>>

\* A's user closes the session.
PairClose ==
  /\ LET r == close(conn, 0)
     IN  /\ conn' = r.s
         /\ ev' = EvRet("pair_close", conn.conv_, conn.state_, r.ret)
         /\ cb_log' = r.cb
         /\ out_log' = r.out
  /\ UNCHANGED <<serverVars, probe, kcp_config_, threads, client, peer, wire, hist>>

NextLossy ==
  \/ PairSend("hello")
  \/ \E m \in DirectPayloads, uvret \in {0, -1} : PairSendDirect(m, uvret)
  \/ \E dir \in {"fwd", "back"} : PairLose(dir)
  \/ PairUpdate
  \/ PairDeliver
  \/ PairAck
  \/ PairPeerUpdate
  \/ PairClose
  \/ Tick

SpecLossy == InitPair /\ [][NextLossy]_vars

(***************************************************************************)
(* KCPClient: one session slot, its own socket and timer.                  *)
(***************************************************************************)
\* The test `if (connection_)` of connect().
AlreadyConnected_Never(c) == FALSE
AlreadyConnected(c) == c.connection_ # NoConn

\* KCPClient::connect; res is the first libuv call that fails.
ConnectResults == {"ok", "bad_ip", "bind_fail", "recv_fail", "timer_fail"}
connect(c, res, conv, now) ==
  IF AlreadyConnected(c) THEN [c |-> c, ret |-> -1]
  ELSE IF res \in {"bad_ip", "bind_fail", "recv_fail"} THEN [c |-> c, ret |-> -22]
  ELSE LET s0 == KCPConnection(conv, TRUE, "server")
           s1 == init_kcp(s0, c.kcp_config_)
           s2 == set_state(s1, "CONNECTED")
           s3 == update_active_time(s2, now)
           c1 == [c EXCEPT !.connection_ = s3, !.recv_active = TRUE, !.closes = 0]
       IN  IF res = "timer_fail" THEN [c |-> c1, ret |-> -22]
           ELSE [c |-> [c1 EXCEPT !.timer_active = TRUE, !.running_ = TRUE],
                 ret |-> 0]

\* KCPClient::send.
client_send(c, m) ==
  IF c.connection_ = NoConn THEN [c |-> c, ret |-> -1]
  ELSE LET r == send(c.connection_, m)
       IN  [c |-> [c EXCEPT !.connection_ = r.s], ret |-> r.ret]

\* The test `if (!connection_)` of disconnect().
NothingToDisconnect_Always(c) == TRUE
NothingToDisconnect(c) == c.connection_ = NoConn

\* KCPClient::disconnect: the timer and the reception are stopped, the
\* session is closed and released.
disconnect(c) ==
  IF NothingToDisconnect(c) THEN [c |-> c, cb |-> <<>>]
  ELSE LET r == close(c.connection_, 0)
       IN  [c |-> [c EXCEPT !.running_ = FALSE, !.timer_active = FALSE,
                            !.recv_active = FALSE, !.connection_ = NoConn,
                            !.closes = @ + Len(r.cb)],
            cb |-> r.cb]

\* KCPClient::stop.
stop(c) == IF ~c.running_ THEN [c |-> c, cb |-> <<>>] ELSE disconnect(c)

\* KCPClient::set_data_callback and set_close_callback: the callback goes
\* to the session if there is one, and nowhere otherwise.
client_set_data_callback(c, cb) ==
  [c EXCEPT !.connection_ = IF @ # NoConn THEN set_data_callback(@, cb) ELSE @,
            !.registered = TRUE]
client_set_close_callback(c, cb) ==
  [c EXCEPT !.connection_ = IF @ # NoConn THEN set_close_callback(@, cb) ELSE @]

\* KCPClient::set_kcp_config.
client_set_kcp_config(c, cfg) == [c EXCEPT !.kcp_config_ = cfg]

\* KCPClient::is_connected.
is_connected(c) == c.connection_ # NoConn /\ c.connection_.state_ = "CONNECTED"

\* KCPClient::handle_udp_data: no length test, no look at the conv.
client_handle_udp_data(c, dg, now) ==
  IF c.connection_ = NoConn THEN [c |-> c, cb |-> <<>>, out |-> <<>>, ret |-> 0]
  ELSE LET c1 == update_active_time(c.connection_, now)
           r1 == input(c1, dg)
           r2 == recv(r1.s, 0)
       IN  [c |-> [c EXCEPT !.connection_ = r2.s], cb |-> r2.cb, out |-> r2.out,
            ret |-> r1.ret]

\* An update_connection() that sweeps as the server's does: a session
\* silent for longer than the shortest timeout is closed and released.
update_connection_Sweeping(c, now) ==
  IF c.connection_ = NoConn THEN [c |-> c, cb |-> <<>>, out |-> <<>>]
  ELSE IF is_timeout(c.connection_, now,
                     CHOOSE t \in Timeouts : \A u \in Timeouts : t <= u)
    THEN LET r == close(c.connection_, 0)
         IN  [c |-> [c EXCEPT !.connection_ = NoConn, !.closes = @ + Len(r.cb)],
              cb |-> r.cb, out |-> <<>>]
  ELSE LET r1 == update(c.connection_, now)
           r2 == recv(r1.s, 0)
       IN  [c |-> [c EXCEPT !.connection_ = r2.s], cb |-> r2.cb,
            out |-> r1.out \o r2.out]

\* KCPClient::update_connection: the engine is ticked and drained; the
\* session's age is not looked at.
update_connection(c, now) ==
  IF c.connection_ = NoConn THEN [c |-> c, cb |-> <<>>, out |-> <<>>]
  ELSE LET r1 == update(c.connection_, now)
           r2 == recv(r1.s, 0)
       IN  [c |-> [c EXCEPT !.connection_ = r2.s], cb |-> r2.cb,
            out |-> r1.out \o r2.out]

\* The client's handlers and the calls of its user.  The frame of each
\* leaves the server, the lone sessions and the history alone.
ClientFrame == UNCHANGED <<serverVars, conn, probe, kcp_config_, peer, hist>>
ClientAlive == ~client.destroyed

ClientConnect(res, conv) ==
  /\ ClientAlive
  /\ LET r == connect(client, res, conv, clock)
     IN  /\ client' = r.c
         /\ ev' = EvRet("connect", conv, res, r.ret)
  /\ cb_log' = <<>> /\ out_log' = <<>>
  /\ ClientFrame /\ UNCHANGED <<wire, threads>>

ClientSend(m) ==
  /\ ClientAlive
  /\ LET r == client_send(client, m)
     IN  /\ client' = r.c
         /\ ev' = EvRet("client_send", 0, m, r.ret)
  /\ cb_log' = <<>> /\ out_log' = <<>>
  /\ ClientFrame /\ UNCHANGED <<wire, threads>>

ClientDisconnect ==
  /\ ClientAlive
  /\ LET r == disconnect(client)
     IN  /\ client' = r.c
         /\ cb_log' = r.cb
  /\ ev' = Ev("disconnect", 0, 0, IF client.running_ THEN "running" ELSE "stopped")
  /\ out_log' = <<>>
  /\ ClientFrame /\ UNCHANGED <<wire, threads>>

ClientStop ==
  /\ ClientAlive
  /\ LET r == stop(client)
     IN  /\ client' = r.c
         /\ cb_log' = r.cb
  /\ ev' = Ev("client_stop", 0, 0, IF client.running_ THEN "running" ELSE "stopped")
  /\ out_log' = <<>>
  /\ ClientFrame /\ UNCHANGED <<wire, threads>>

\* KCPClient::~KCPClient.
ClientDestroy ==
  /\ ClientAlive
  /\ LET r == disconnect(client)
     IN  /\ client' = [r.c EXCEPT !.destroyed = TRUE]
         /\ cb_log' = r.cb
  /\ ev' = Ev("client_destroy", 0, 0, IF client.running_ THEN "running" ELSE "stopped")
  /\ out_log' = <<>>
  /\ ClientFrame /\ UNCHANGED <<wire, threads>>

ClientSetDataCallback(k) ==
  /\ ClientAlive
  /\ client' = client_set_data_callback(client, k)
  /\ ev' = Ev("client_set_data_callback", 0, 0, k)
  /\ cb_log' = <<>> /\ out_log' = <<>>
  /\ ClientFrame /\ UNCHANGED <<wire, threads>>

ClientSetCloseCallback(k) ==
  /\ ClientAlive
  /\ client' = client_set_close_callback(client, k)
  /\ ev' = Ev("client_set_close_callback", 0, 0, k)
  /\ cb_log' = <<>> /\ out_log' = <<>>
  /\ ClientFrame /\ UNCHANGED <<wire, threads>>

ClientSetKcpConfig(cfg) ==
  /\ ClientAlive
  /\ client' = client_set_kcp_config(client, cfg)
  /\ ev' = Ev("client_set_kcp_config", 0, 0, cfg)
  /\ cb_log' = <<>> /\ out_log' = <<>>
  /\ ClientFrame /\ UNCHANGED <<wire, threads>>

\* KCPClient::on_udp_recv followed by handle_udp_data.
client_on_udp_recv(dg) ==
  /\ ClientAlive
  /\ client.recv_active
  /\ LET r == IF dg.len <= 0
                THEN [c |-> client, cb |-> <<>>, out |-> <<>>, ret |-> 0]
                ELSE client_handle_udp_data(client, dg, clock)
     IN  /\ client' = r.c
         /\ cb_log' = r.cb
         /\ out_log' = r.out
         /\ ev' = [Ev("client_udp", dg.conv, dg.len, dg.cmd) EXCEPT
                     !.ret = r.ret, !.addr = dg.addr, !.data = dg.data]
  /\ ClientFrame

\* KCPClient::on_timer, that is update_connection.
client_on_timer ==
  /\ ClientAlive
  /\ client.timer_active
  /\ LET r == update_connection(client, clock)
     IN  /\ client' = r.c
         /\ cb_log' = r.cb
         /\ out_log' = r.out
  /\ ev' = Ev("client_timer", 0, 0, "none")
  /\ ClientFrame

\* A datagram arrives from outside the model; the timer fires and what the
\* engine flushes leaves the model.
ClientOnUdpRecv(dg) == client_on_udp_recv(dg) /\ UNCHANGED <<wire, threads>>
ClientOnTimer == client_on_timer /\ UNCHANGED <<wire, threads>>

\* The callbacks a user of the client registers: the example's only read.
ClientCallbacks == {"user"}

InitClient ==
  /\ ServerIdle
  /\ ev = NoEv /\ cb_log = <<>> /\ out_log = <<>>
  /\ conn = NoConn /\ probe = NoProbe /\ peer = NoConn
  /\ wire = NoWire /\ hist = NoHist /\ threads = NoThreads
  /\ client = NoClient

NextClient ==
  \/ \E res \in ConnectResults, conv \in Convs : ClientConnect(res, conv)
  \/ \E m \in Payloads : ClientSend(m)
  \/ ClientDisconnect
  \/ ClientStop
  \/ ClientDestroy
  \/ \E k \in ClientCallbacks : ClientSetDataCallback(k)
  \/ \E k \in ClientCallbacks : ClientSetCloseCallback(k)
  \/ \E cfg \in Configs : ClientSetKcpConfig(cfg)
  \/ \E dg \in DatagramsFrom({"server"}) : ClientOnUdpRecv(dg)
  \/ ClientOnTimer
  \/ Tick

SpecClient == InitClient /\ [][NextClient]_vars

(***************************************************************************)
(* A KCPServer and a KCPClient joined by the transport.  wire.fwd runs     *)
(* from the client to the server, wire.back from the server to the client; *)
(* neither engine retransmits while a datagram is in flight.               *)
(***************************************************************************)
InitNet ==
  /\ Init
  /\ client = NoClient

\* The server's socket delivers the client's oldest datagram; the engine
\* of the session acknowledges a push to the session's peer address.
NetServerRecv(uvret) ==
  /\ wire.fwd # <<>>
  /\ on_udp_recv(Head(wire.fwd), uvret)
  /\ LET dg == Head(wire.fwd)
         i == MapFind(connections_', dg.conv)
         acked == /\ dg.cmd = "push" /\ i # 0
                  /\ connections_'[i].addr_ = "client"
     IN  wire' = [fwd |-> Tail(wire.fwd),
                  back |-> wire.back \o Sent(out_log', 1, "client", "server")
                             \o (IF acked THEN <<AckOf(dg, "server")>> ELSE <<>>)]
  /\ UNCHANGED <<client, peer, hist, threads>>

\* The server's timer fires; what the sweep sends to the client travels.
NetServerTimer(ub, uvret) ==
  /\ wire = NoWire
  /\ on_timer(ub, uvret)
  /\ wire' = [wire EXCEPT !.back = Sent(out_log', 1, "client", "server")]
  /\ UNCHANGED <<client, peer, hist, threads>>

\* The client's socket delivers the server's oldest datagram.
NetClientRecv ==
  /\ wire.back # <<>>
  /\ client_on_udp_recv(Head(wire.back))
  /\ LET dg == Head(wire.back)
         acked == /\ dg.cmd = "push" /\ client.connection_ # NoConn
                  /\ dg.conv = client.connection_.conv_
     IN  wire' = [back |-> Tail(wire.back),
                  fwd |-> wire.fwd \o Sent(out_log', 1, "server", "client")
                            \o (IF acked THEN <<AckOf(dg, "client")>> ELSE <<>>)]
  /\ UNCHANGED threads

\* The client's timer fires; what its engine flushes travels.
NetClientTimer ==
  /\ wire = NoWire
  /\ client_on_timer
  /\ wire' = [wire EXCEPT !.fwd = Sent(out_log', 1, "server", "client")]
  /\ UNCHANGED threads

\* A datagram reaches a socket whose reception is stopped, and is lost.
NetDrop ==
  /\ \/ /\ wire.fwd # <<>> /\ ~(Alive /\ recv_active)
        /\ wire' = [wire EXCEPT !.fwd = Tail(@)]
     \/ /\ wire.back # <<>> /\ ~(ClientAlive /\ client.recv_active)
        /\ wire' = [wire EXCEPT !.back = Tail(@)]
  /\ ev' = Ev("drop", 0, 0, "none")
  /\ cb_log' = <<>> /\ out_log' = <<>>
  /\ UNCHANGED <<serverVars, conn, probe, kcp_config_, client, peer, hist, threads>>

NextNet ==
  \/ BindAndListen("ok")
  \/ \E k \in NewConnectionCallbacks : SetNewConnectionCallback(k)
  \/ \E uvret \in {0, -1} : NetServerRecv(uvret)
  \/ \E ub \in UBOutcomes, uvret \in {0, -1} : NetServerTimer(ub, uvret)
  \/ \E k \in ClientCallbacks : ClientSetDataCallback(k)
  \/ \E k \in ClientCallbacks : ClientSetCloseCallback(k)
  \/ ClientConnect("ok", ConnConv)
  \/ \E m \in Payloads : ClientSend(m)
  \/ ClientDisconnect
  \/ NetClientRecv
  \/ NetClientTimer
  \/ NetDrop
  \/ Tick

SpecNet == InitNet /\ [][NextNet]_vars

(***************************************************************************)
(* A KCPServer and a KCPClient whose tunables their users change while     *)
(* sessions come and go.                                                   *)
(***************************************************************************)
\* The traffic that creates sessions and keeps them active.
CfgDatagrams == {dg \in DatagramsFrom({"peerA"}) : dg.cmd = "push" /\ dg.data = "hello"}

NextCfg ==
  \/ BindAndListen("ok")
  \/ \E cfg \in Configs : SetKcpConfig(cfg)
  \/ \E k \in NewConnectionCallbacks : SetNewConnectionCallback(k)
  \/ \E t \in Timeouts : SetTimeout(t)
  \/ \E dg \in CfgDatagrams : OnUdpRecv(dg, 0)
  \/ \E ub \in UBOutcomes : OnTimer(ub, 0)
  \/ \E cfg \in Configs : ClientSetKcpConfig(cfg)
  \/ ClientConnect("ok", ConnConv)
  \/ ClientDisconnect
  \/ ClientOnTimer
  \/ Tick

SpecCfg == InitNet /\ [][NextCfg]_vars

(***************************************************************************)
(* A KCPServer that two peers, at different addresses, send datagrams to   *)
(* under the same convs.                                                   *)
(***************************************************************************)
AddrDatagrams == {dg \in DatagramsFrom({"peerA", "peerB"}) : dg.len >= MinHeaderLen}

NextAddr ==
  \/ BindAndListen("ok")
  \/ \E k \in NewConnectionCallbacks : SetNewConnectionCallback(k)
  \/ \E t \in Timeouts : SetTimeout(t)
  \/ \E dg \in AddrDatagrams : OnUdpRecv(dg, 0)
  \/ \E ub \in UBOutcomes : OnTimer(ub, 0)
  \/ Tick

SpecAddr == Init /\ [][NextAddr]_vars

(***************************************************************************)
(* The client program of examples/client_main.cpp: the main thread is in   *)
(* run(), where the loop calls on_timer and on_udp_recv; send_thread calls *)
(* client.send(); SIGINT runs signal_handler, which calls client.stop(),   *)
(* on top of whatever the thread it is delivered to is doing.  Nothing     *)
(* orders the three: a call is entered, overlaps or not, and is left.      *)
(***************************************************************************)
\* What a call on the session can come to when another thread was inside a
\* call on the same session meanwhile: the effect it has alone, no effect
\* because the other thread's writes win, or memory corruption.
RaceOutcomes == {"serial", "lost", "crash"}

\* No datagram in the handler's hands.
NoDg == NoThreads.dg

\* main() up to run(): the tunables, the two callbacks, then connect().
ExampleClient ==
  connect(client_set_close_callback(
            client_set_data_callback(
              client_set_kcp_config(NoClient, "lowlatency"), "user"), "user"),
          "ok", ConnConv, ClockStart).c

InitThreads ==
  /\ ServerIdle
  /\ ev = NoEv /\ cb_log = <<>> /\ out_log = <<>>
  /\ conn = NoConn /\ probe = NoProbe /\ peer = NoConn
  /\ wire = NoWire /\ hist = NoHist
  /\ client = ExampleClient
  /\ threads = NoThreads

\* Some thread is inside a call on the client's session.
Busy(t) == t.loop # "idle" \/ t.sender # "idle" \/ t.signal # "idle"
\* Two threads are, at once.
Overlap(t) ==
  \/ t.loop # "idle" /\ t.sender # "idle"
  \/ t.loop # "idle" /\ t.signal # "idle"
  \/ t.sender # "idle" /\ t.signal # "idle"

ThreadFrame == UNCHANGED <<serverVars, conn, probe, kcp_config_, peer, wire, hist>>

\* A thread enters its call; t is threads with that thread's position set.
ThreadEnter(op, t) ==
  /\ ~threads.crashed
  /\ threads' = [t EXCEPT !.raced = Overlap(t)]
  /\ ev' = Ev(op, 0, 0, IF Overlap(t) THEN "overlap" ELSE "alone")
  /\ cb_log' = <<>> /\ out_log' = <<>>
  /\ UNCHANGED client
  /\ ThreadFrame

\* A thread leaves its call; c is the client as the call alone leaves it, t
\* is threads with that thread idle again.
ThreadLeave(op, o, c, ret, cbs, t) ==
  /\ ~threads.crashed
  /\ LET outcome == IF threads.raced THEN o ELSE "serial"
     IN  /\ client' = (IF outcome = "serial" THEN c ELSE client)
         /\ threads' = [t EXCEPT !.crashed = (outcome = "crash"),
                                 !.raced = @ /\ Busy(t)]
         /\ ev' = [EvRet(op, 0, outcome, ret) EXCEPT !.data = threads.msg]
         /\ cb_log' = (IF outcome = "serial" THEN cbs ELSE <<>>)
  /\ out_log' = <<>>
  /\ ThreadFrame

\* The loop in uv_run calls KCPClient::on_timer: update_connection.
LoopEnterTimer ==
  /\ threads.loop = "idle" /\ client.timer_active
  /\ ThreadEnter("enter_timer", [threads EXCEPT !.loop = "timer"])

\* The loop in uv_run calls KCPClient::on_udp_recv: handle_udp_data.
LoopEnterUdp(dg) ==
  /\ threads.loop = "idle" /\ client.recv_active
  /\ ThreadEnter("enter_udp", [threads EXCEPT !.loop = "udp", !.dg = dg])

LoopLeave(o) ==
  /\ threads.loop # "idle"
  /\ LET r == IF threads.loop = "timer" THEN update_connection(client, clock)
              ELSE client_handle_udp_data(client, threads.dg, clock)
     IN  ThreadLeave("leave_" \o threads.loop, o, r.c, 0, r.cb,
                     [threads EXCEPT !.loop = "idle", !.dg = NoDg])

\* send_thread calls client.send(m).
SenderEnter(m) ==
  /\ threads.sender = "idle"
  /\ ThreadEnter("enter_send", [threads EXCEPT !.sender = "send", !.msg = m])

SenderLeave(o) ==
  /\ threads.sender # "idle"
  /\ LET r == client_send(client, threads.msg)
     IN  ThreadLeave("leave_send", o, r.c, r.ret, <<>>,
                     [threads EXCEPT !.sender = "idle", !.msg = "none"])

\* SIGINT: signal_handler calls g_client->stop().
SignalEnter ==
  /\ threads.signal = "idle"
  /\ ThreadEnter("enter_stop", [threads EXCEPT !.signal = "stop"])

SignalLeave(o) ==
  /\ threads.signal # "idle"
  /\ LET r == stop(client)
     IN  ThreadLeave("leave_stop", o, r.c, 0, r.cb,
                     [threads EXCEPT !.signal = "idle"])

\* The datagrams the server of the example sends back.
ThreadDatagrams == {dg \in DatagramsFrom({"server"}) : dg.len >= MinHeaderLen}

NextThreads ==
  \/ LoopEnterTimer
  \/ \E dg \in ThreadDatagrams : LoopEnterUdp(dg)
  \/ \E o \in RaceOutcomes : LoopLeave(o)
  \/ \E m \in Payloads : SenderEnter(m)
  \/ \E o \in RaceOutcomes : SenderLeave(o)
  \/ SignalEnter
  \/ \E o \in RaceOutcomes : SignalLeave(o)
  \/ Tick

SpecThreads == InitThreads /\ [][NextThreads]_vars

(***************************************************************************)
(* Properties.                                                             *)
(***************************************************************************)
\* How many callback events of log satisfy cb = kind for session conv.
CountCb(log, kind, conv) ==
  Cardinality({i \in 1 .. Len(log) : log[i].cb = kind /\ log[i].conv = conv})
\* How many entries of the table carry conv.
CountConv(m, conv) == Cardinality({i \in 1 .. Len(m) : m[i].conv_ = conv})
\* The keys of the table whose session is_timeout() reports at now.
TimedOutKeys(m, now, timeout) ==
  {m[i].conv_ : i \in {j \in 1 .. Len(m) : is_timeout(m[j], now, timeout)}}

\* C1: a datagram of at least 24 bytes whose conv is not in the table
\* leaves exactly one session with that conv, CONNECTED, and the registered
\* new-connection callback invoked exactly once for it; a datagram whose
\* conv is in the table creates no session and invokes no new-connection
\* callback; the table never holds two sessions with the same conv.
C1_Demux ==
  [][ /\ \A c \in Convs : CountConv(connections_', c) <= 1
      /\ (ev'.op = "udp" /\ ev'.len >= MinHeaderLen) =>
           IF ev'.conv \notin MapKeys(connections_)
             THEN /\ CountConv(connections_', ev'.conv) = 1
                  /\ MapGet(connections_', ev'.conv).state_ = "CONNECTED"
                  /\ MapKeys(connections_') = MapKeys(connections_) \cup {ev'.conv}
                  /\ new_connection_callback_ # "none" =>
                       CountCb(cb_log', "new", ev'.conv) = 1
                  /\ \A c \in Convs \ {ev'.conv} : CountCb(cb_log', "new", c) = 0
             ELSE /\ MapKeys(connections_') = MapKeys(connections_)
                  /\ Len(connections_') = Len(connections_)
                  /\ \A c \in Convs : CountCb(cb_log', "new", c) = 0
                  /\ MapGet(connections_', ev'.conv).addr_
                       = MapGet(connections_, ev'.conv).addr_
                  /\ MapGet(connections_', ev'.conv).close_callback_
                       = MapGet(connections_, ev'.conv).close_callback_
    ]_vars

\* A datagram has just created session 1 beside session 0 and the
\* new-connection callback has run for it.
C1_Witness ==
  /\ ev.op = "udp" /\ ev.len >= MinHeaderLen /\ ev.conv = 1
  /\ CountCb(cb_log, "new", 1) = 1
  /\ MapKeys(connections_) = {0, 1}
  /\ MapGet(connections_, 1).last_active_time_ # MapGet(connections_, 0).last_active_time_

\* C2: one sweep leaves exactly the sessions that are not timed out, and
\* the close callback of every removed session has fired exactly once.
C2_SweepSafety ==
  [][ ev'.op = "sweep" =>
        LET gone == TimedOutKeys(connections_, clock, timeout_)
        IN  /\ ~crashed'
            /\ MapKeys(connections_') = MapKeys(connections_) \ gone
            /\ Len(connections_') = Len(connections_) - Cardinality(gone)
            /\ \A c \in gone :
                 MapGet(connections_, c).nclose + CountCb(cb_log', "close", c) = 1
    ]_vars

\* C3: however often close() is called on a session, its close callback
\* runs exactly once, in the first call, and the state is DISCONNECTED
\* after every call.
C3_CloseIdempotent ==
  /\ conn.nclose <= 1
  /\ ev.op = "close" =>
       /\ conn.state_ = "DISCONNECTED"
       /\ (ev.arg = "DISCONNECTED" => cb_log = <<>>)
       /\ (ev.arg # "DISCONNECTED" /\ conn.close_callback_ # "none") =>
            (conn.nclose = 1 /\ CountCb(cb_log, "close", conn.conv_) = 1)
  /\ (conn.nclose = 1 => conn.state_ = "DISCONNECTED")

\* close() has just been called on a session that was DISCONNECTED by an
\* earlier close(), whose callback calls close() itself.
C3_Witness ==
  /\ ev.op = "close" /\ ev.arg = "DISCONNECTED"
  /\ conn.nclose = 1 /\ conn.close_callback_ = "reenter"

\* C4: when stop() returns on a running server, the table is empty.
C4_StopClosesAll ==
  (ev.op = "stop" /\ ev.arg = "running") => connections_ = <<>>

\* C5: no session of the table is DISCONNECTED between two handlers.
C5_CloseImpliesRemoval ==
  \A i \in 1 .. Len(connections_) : connections_[i].state_ # "DISCONNECTED"

\* C6: on a session that is not CONNECTED, send() and send_udp_direct()
\* return a negative result, leave the engine as it is and hand nothing to
\* the transport.
C6_SendOnlyConnected ==
  [][ (ev'.op \in {"send", "send_udp_direct"} /\ conn.state_ # "CONNECTED") =>
        /\ ev'.ret < 0
        /\ conn' = conn
        /\ out_log' = <<>>
        /\ cb_log' = <<>>
    ]_vars

\* send() has just been refused on a DISCONNECTING session whose engine
\* has room and whose socket handle is set.
C6_Witness ==
  /\ ev.op = "send" /\ ev.arg = "DISCONNECTING" /\ ev.ret < 0
  /\ conn.kcp_.snd = <<>> /\ conn.udp_handle_

\* C7: a DISCONNECTED session of the table is inert: no handler changes
\* its engine, invokes its data callback or sends a datagram for it.
C7_DisconnectedInert ==
  [][ \A i \in 1 .. Len(connections_) :
        (connections_[i].state_ = "DISCONNECTED"
           /\ connections_[i].conv_ \in MapKeys(connections_')) =>
          /\ MapGet(connections_', connections_[i].conv_).kcp_ = connections_[i].kcp_
          /\ CountCb(cb_log', "data", connections_[i].conv_) = 0
          /\ \A k \in 1 .. Len(out_log') :
               out_log'[k].by # connections_[i].conv_
    ]_vars

\* now is d milliseconds after t0 on the wrapping clock.
ElapsedIs(t0, now, d) == d \in 0 .. (Wrap - 1) /\ (t0 + d) % Wrap = now

\* C8 as stated: is_timeout is true iff more than timeout ms have elapsed
\* (mod 2^w), and for every timeout >= 1 it is true at t0 + timeout + 1 and
\* false at t0 + timeout - 1.
C8_TimeoutAsStated ==
  probe.done =>
    /\ \A d \in Timestamps :
         ElapsedIs(probe.t0, probe.now, d) => (probe.result <=> d > probe.timeout)
    /\ (probe.timeout >= 1 /\ probe.now = Add32(Add32(probe.t0, probe.timeout), 1))
         => probe.result
    /\ (probe.timeout >= 1 /\ probe.now = Sub32(Add32(probe.t0, probe.timeout), 1))
         => ~probe.result

\* C8, amended: the same, for timeouts from 1 to 2^w - 2.
C8_Timeout ==
  probe.done =>
    /\ \A d \in Timestamps :
         ElapsedIs(probe.t0, probe.now, d) => (probe.result <=> d > probe.timeout)
    /\ (probe.timeout >= 1 /\ probe.timeout <= Wrap - 2
          /\ probe.now = Add32(Add32(probe.t0, probe.timeout), 1))
         => probe.result
    /\ (probe.timeout >= 1
          /\ probe.now = Sub32(Add32(probe.t0, probe.timeout), 1))
         => ~probe.result

\* is_timeout was asked just past the timeout, with t0 + timeout + 1 on the
\* other side of the wrap, and answered true.
C8_Witness ==
  /\ probe.done /\ probe.timeout >= 1 /\ probe.timeout <= Wrap - 2
  /\ probe.now = Add32(Add32(probe.t0, probe.timeout), 1)
  /\ probe.now < probe.t0
  /\ probe.result

\* C9: a sweep evicts the sessions that have been silent for more than
\* the timeout, keeps every session that has not, and leaves the server
\* running for the sweeps to come.
C9_TimeoutEviction ==
  [][ (ev'.op = "sweep" /\ running_) =>
        /\ \A c \in MapKeys(connections_) :
             c \in MapKeys(connections_')
               <=> ~is_timeout(MapGet(connections_, c), clock, timeout_)
        /\ ~crashed' /\ timer_active'
    ]_vars

\* C10: a datagram shorter than 24 bytes changes nothing: no session is
\* created, no callback runs, no session's last_active or engine changes.
C10_ShortDatagram ==
  [][ (ev'.op = "udp" /\ ev'.len < MinHeaderLen) =>
        /\ connections_' = connections_
        /\ cb_log' = <<>>
        /\ out_log' = <<>>
    ]_vars

\* A 23-byte datagram carrying the conv of a session that was last active
\* at another time has just been dropped, and one whose conv is unknown.
C10_Witness ==
  /\ ev.op = "udp" /\ ev.len = MinHeaderLen - 1
  /\ ev.conv \in MapKeys(connections_)
  /\ MapGet(connections_, ev.conv).last_active_time_ # clock
  /\ MapKeys(connections_) # Convs

\* C11: the new-connection callback runs only in the handler that creates
\* the session, finds the session in the table and CONNECTED, and precedes
\* every invocation of the data callback for that session.
C11_NotifyOrder ==
  [][ \A k \in 1 .. Len(cb_log') :
        cb_log'[k].cb = "new" =>
          /\ ev'.op = "udp" /\ cb_log'[k].conv = ev'.conv
          /\ ev'.conv \notin MapKeys(connections_)
          /\ cb_log'[k].stored
          /\ cb_log'[k].state = "CONNECTED"
          /\ \A j \in 1 .. Len(cb_log') :
               (cb_log'[j].cb = "data" /\ cb_log'[j].conv = ev'.conv) => j > k
    ]_vars

\* The datagram that created session 1 carried a message: the
\* new-connection callback ran, then the data callback with that message.
C11_Witness ==
  /\ ev.op = "udp" /\ ev.conv = 1 /\ Len(cb_log) >= 2
  /\ cb_log[1].cb = "new" /\ cb_log[2].cb = "data" /\ cb_log[2].conv = 1

\* The first n elements of the sequence q.
Prefix(q, n) == [i \in 1 .. n |-> q[i]]

C14_Connect ==
  [][ ev'.op = "connect" =>
        IF client.connection_ # NoConn
          THEN ev'.ret < 0 /\ client' = client
          ELSE ev'.ret = 0 =>
                 /\ client'.connection_ # NoConn
                 /\ client'.connection_.conv_ = ev'.conv
                 /\ client'.connection_.state_ = "CONNECTED"
                 /\ client'.connection_.kcp_.cfg = client.kcp_config_
                 /\ client'.recv_active /\ client'.timer_active
                 /\ is_connected(client')
    ]_vars

\* connect() has just been refused on a client that holds session 1,
\* configured with tunables set before it was created.
C14_Witness ==
  /\ ev.op = "connect" /\ ev.ret < 0 /\ ev.conv = 0
  /\ is_connected(client) /\ client.connection_.conv_ = 1
  /\ client.connection_.kcp_.cfg = "standard"

\* C15: disconnect() on a client that holds a session runs the session's
\* close callback once, stops the reception and the timer and releases the
\* session; with no session send() fails and neither handler runs; over
\* any calls of disconnect(), stop() and the destructor a session's close
\* callback runs at most once.
C15_Disconnect ==
  [][ /\ (ev'.op = "disconnect" /\ client.connection_ # NoConn) =>
           /\ client'.connection_ = NoConn
           /\ ~client'.recv_active /\ ~client'.timer_active /\ ~client'.running_
           /\ ~is_connected(client')
           /\ client.connection_.close_callback_ # "none" =>
                CountCb(cb_log', "close", client.connection_.conv_) = 1
      /\ (ev'.op = "client_send" /\ client.connection_ = NoConn) => ev'.ret < 0
      /\ ev'.op \in {"client_udp", "client_timer"} => client.connection_ # NoConn
      /\ client'.closes <= 1
    ]_vars

\* The destructor has run after stop() closed the session, whose close
\* callback was registered and had run once.
C15_Witness ==
  /\ ev.op = "client_destroy" /\ client.closes = 1
  /\ client.connection_ = NoConn /\ ~client.recv_active /\ ~client.timer_active

\* C13: once the user has registered a data callback with the client, a
\* reply of the server that the client's engine takes is handed to that
\* callback, byte for byte.
C13_ExampleEndToEnd ==
  [][ (/\ ev'.op = "client_udp" /\ ev'.arg = "push" /\ ev'.ret = 0
       /\ client.registered /\ client.connection_ # NoConn) =>
        \E k \in 1 .. Len(cb_log') :
          cb_log'[k].cb = "data" /\ cb_log'[k].data = ev'.data
    ]_vars

\* The place of a state in the order CONNECTING, CONNECTED, DISCONNECTING,
\* DISCONNECTED.
Rank(st) == CHOOSE n \in 0 .. 3 :
              <<"CONNECTING", "CONNECTED", "DISCONNECTING", "DISCONNECTED">>[n + 1] = st

\* C16: a session starts CONNECTING, no call moves its state backward in
\* the order, and a DISCONNECTED session stays DISCONNECTED.
C16_StateMonotone ==
  /\ [](ev.op = "init" => conn.state_ = "CONNECTING")
  /\ [][ /\ Rank(conn'.state_) >= Rank(conn.state_)
         /\ conn.state_ = "DISCONNECTED" => conn'.state_ = "DISCONNECTED"
       ]_vars

\* C19: when the engine rejects a datagram of at least 24 bytes, the
\* session it was for is in the table afterwards, CONNECTED if the datagram
\* created it and in the state it had otherwise, no close callback runs and
\* no other session changes; a session changes state or leaves the table
\* only in a sweep, in a close() or with the server.
C19_ProtocolErrorIsolated ==
  [][ /\ (ev'.op = "udp" /\ ev'.len >= MinHeaderLen /\ ev'.ret < 0) =>
           /\ ev'.conv \in MapKeys(connections_')
           /\ MapGet(connections_', ev'.conv).state_ =
                (IF ev'.conv \in MapKeys(connections_)
                   THEN MapGet(connections_, ev'.conv).state_ ELSE "CONNECTED")
           /\ \A c \in Convs : CountCb(cb_log', "close", c) = 0
           /\ \A c \in MapKeys(connections_) \ {ev'.conv} :
                c \in MapKeys(connections_') /\ MapGet(connections_', c) = MapGet(connections_, c)
      /\ \A c \in MapKeys(connections_) :
           (c \notin MapKeys(connections_')
              \/ MapGet(connections_', c).state_ # MapGet(connections_, c).state_)
             => ev'.op \in {"sweep", "close", "destroy"}
    ]_vars

\* The engine of CONNECTED session 1 has just rejected a datagram, with
\* session 0 in the table beside it.
C19_Witness ==
  /\ ev.op = "udp" /\ ev.len >= MinHeaderLen /\ ev.ret < 0 /\ ev.conv = 1
  /\ MapKeys(connections_) = {0, 1}
  /\ MapGet(connections_, 1).state_ = "CONNECTED"
  /\ MapGet(connections_, 1).last_active_time_ # MapGet(connections_, 0).last_active_time_

\* C20: send() on a CONNECTED session returns the engine's negative result
\* when the engine rejects the write and leaves the session as it was,
\* CONNECTED; when the engine has room it returns 0 and the message is
\* queued.
C20_CapacityError ==
  [][ (ev'.op = "pair_send" /\ conn.state_ = "CONNECTED") =>
        IF ikcp_send(conn.kcp_, "hello").ret < 0
          THEN /\ ev'.ret = ikcp_send(conn.kcp_, "hello").ret
               /\ conn' = conn
               /\ hist'.sent = hist.sent
          ELSE /\ ev'.ret = 0
               /\ conn'.state_ = "CONNECTED"
               /\ Len(conn'.kcp_.snd) = Len(conn.kcp_.snd) + 1
               /\ Len(hist'.sent) = Len(hist.sent) + 1
    ]_vars

\* send() has just succeeded on a session on which an earlier send() was
\* refused.
C20_Witness ==
  /\ ev.op = "pair_send" /\ ev.ret = 0 /\ hist.refused
  /\ conn.state_ = "CONNECTED" /\ Len(hist.sent) >= 2

\* C17: a session is created with the tunables its server or client
\* holds at that moment; set_kcp_config changes the stored tunables and
\* nothing else, and no step changes the engine parameters a session was
\* created with.
C17_ConfigCapture ==
  [][ /\ ev'.op = "set_kcp_config" =>
           /\ kcp_config_' = ev'.arg
           /\ connections_' = connections_ /\ client' = client
      /\ ev'.op = "client_set_kcp_config" =>
           /\ client' = [client EXCEPT !.kcp_config_ = ev'.arg]
           /\ connections_' = connections_ /\ kcp_config_' = kcp_config_
      /\ \A c \in MapKeys(connections_') :
           MapGet(connections_', c).kcp_.cfg =
             (IF c \in MapKeys(connections_)
                THEN MapGet(connections_, c).kcp_.cfg ELSE kcp_config_)
      /\ client'.connection_ # NoConn =>
           client'.connection_.kcp_.cfg =
             (IF client.connection_ # NoConn
                THEN client.connection_.kcp_.cfg ELSE client.kcp_config_)
    ]_vars

\* The server and the client have both gone back to the low-latency
\* tunables while each holds a session created under the standard ones.
C17_Witness ==
  /\ ev.op \in {"set_kcp_config", "client_set_kcp_config"}
  /\ kcp_config_ = "lowlatency" /\ client.kcp_config_ = "lowlatency"
  /\ connections_ # <<>> /\ connections_[1].kcp_.cfg = "standard"
  /\ client.connection_ # NoConn /\ client.connection_.kcp_.cfg = "standard"

\* The peer address of the session conv that a handler ran on: the one
\* the table held before the handler, or the one it holds afterwards.
AddrOf(before, after, conv) ==
  IF conv \in MapKeys(before) THEN MapGet(before, conv).addr_
  ELSE MapGet(after, conv).addr_

\* C18: a session's peer address is the source address of the datagram
\* that created it, no handler changes it, and every datagram the session
\* hands to the socket, from the engine or on the direct path, is addressed
\* to it.
C18_PeerAddressFixed ==
  [][ /\ \A c \in MapKeys(connections_') :
           MapGet(connections_', c).addr_ =
             (IF c \in MapKeys(connections_)
                THEN MapGet(connections_, c).addr_ ELSE ev'.addr)
      /\ \A k \in 1 .. Len(out_log') :
           out_log'[k].to = AddrOf(connections_, connections_', out_log'[k].by)
    ]_vars

\* A PING from peerB under the conv of a session that peerA created has
\* just been answered on the direct path, to peerA.
C18_Witness ==
  /\ ev.op = "udp" /\ ev.addr = "peerB" /\ ev.data = "PING"
  /\ MapFind(connections_, ev.conv) # 0
  /\ MapGet(connections_, ev.conv).addr_ = "peerA"
  /\ Len(out_log) = 1 /\ out_log[1].to = "peerA" /\ out_log[1].buf.cmd = "raw"

\* C21: no two threads are ever inside calls on the client's session at
\* once: the loop's handlers, send() and stop() never overlap, and no call
\* ends in memory corruption.
C21_SingleThread ==
  /\ ~Overlap(threads)
  /\ ~threads.crashed

\* The datagrams of the sequence q that came from the direct path.
RawCount(q) == Cardinality({i \in 1 .. Len(q) : q[i].cmd = "bad" /\ q[i].data \in DirectPayloads})

\* C22: send_udp_direct() on a CONNECTED session whose datagram the
\* transport accepts returns 0, leaves the session's state and engine as
\* they were (get_waitsnd() unchanged) and puts the bytes on the network
\* once; when the network drops a datagram neither session changes and no
\* callback runs; the data callback is never handed a direct-path message,
\* and no step but send_udp_direct() puts one on the network again.
C22_DirectPath ==
  [][ /\ (ev'.op = "pair_send_direct" /\ conn.state_ = "CONNECTED"
            /\ ev'.arg = "accepted") =>
           /\ ev'.ret = 0
           /\ conn' = conn
           /\ get_waitsnd(conn') = get_waitsnd(conn)
           /\ Len(out_log') = 1 /\ out_log'[1].buf.data = ev'.data
           /\ RawCount(wire'.fwd) = RawCount(wire.fwd) + 1
      /\ ev'.op = "pair_lose" =>
           /\ conn' = conn /\ peer' = peer
           /\ cb_log' = <<>> /\ out_log' = <<>>
           /\ hist'.delivered = hist.delivered
      /\ \A k \in 1 .. Len(cb_log') :
           cb_log'[k].cb = "data" => cb_log'[k].data \notin DirectPayloads
      /\ ev'.op # "pair_send_direct" =>
           /\ RawCount(wire'.fwd) <= RawCount(wire.fwd)
           /\ \A k \in 1 .. Len(out_log') : out_log'[k].buf.cmd # "raw"
    ]_vars

\* The network has just dropped a direct-path datagram of A, whose engine
\* holds a message and is CONNECTED; nothing is in flight any more.
C22_Witness ==
  /\ ev.op = "pair_lose" /\ ev.data \in DirectPayloads
  /\ conn.state_ = "CONNECTED" /\ get_waitsnd(conn) = 1
  /\ wire = NoWire /\ hist.delivered = <<>>

\* C23: every datagram a session hands to uv_udp_send, from the engine's
\* output callback or from send_udp_direct(), starts with that session's
\* conv.
C23_WireFormat ==
  \A k \in 1 .. Len(out_log) : LeadingId(out_log[k].buf) = out_log[k].by

\* C24: no session of the server's table and no session of a client has
\* conv 0: a datagram leading with 0 and a connect() with 0 create none.
C24_NonZeroIds ==
  /\ \A i \in 1 .. Len(connections_) : connections_[i].conv_ # 0
  /\ client.connection_ # NoConn => client.connection_.conv_ # 0

C26_SweepCursorSafe ==
  ev.op = "sweep" => (ev.arg # "ub" /\ ~crashed)

\* The positions of the calls op that the sweep made on session conv.
VisitsOf(v, conv, op) == {k \in 1 .. Len(v) : v[k].conv = conv /\ v[k].op = op}

\* C27: one pass of update_connections visits every session that is in
\* the table when it starts exactly once: a timed-out session is closed
\* and neither ticked nor drained, every other session gets one update()
\* and then one recv(); every call uses the clock as read at the start.
C27_SweepOnce ==
  [][ ev'.op = "sweep" =>
        /\ \A c \in MapKeys(connections_) :
             IF is_timeout(MapGet(connections_, c), clock, timeout_)
               THEN /\ Cardinality(VisitsOf(ev'.visits, c, "close")) = 1
                    /\ VisitsOf(ev'.visits, c, "update") = {}
                    /\ VisitsOf(ev'.visits, c, "recv") = {}
               ELSE /\ VisitsOf(ev'.visits, c, "close") = {}
                    /\ Cardinality(VisitsOf(ev'.visits, c, "update")) = 1
                    /\ Cardinality(VisitsOf(ev'.visits, c, "recv")) = 1
                    /\ \A k \in VisitsOf(ev'.visits, c, "update") :
                         k + 1 \in VisitsOf(ev'.visits, c, "recv")
        /\ \A k \in 1 .. Len(ev'.visits) :
             /\ ev'.visits[k].conv \in MapKeys(connections_)
             /\ ev'.visits[k].now = clock
    ]_vars

(***************************************************************************)
(* C28: recv() terminates, and when B's receive handler or periodic        *)
(* handler has run recv(), every message the engine had reassembled has     *)
(* been handed to the data callback exactly once, in the engine's order,    *)
(* and the engine holds none; also for a message longer than the 64 KB      *)
(* receive buffer, which send() accepts.                                    *)
(***************************************************************************)
C28_DrainComplete ==
  [][ ev'.op \in {"pair_deliver", "pair_peer_update"} =>
        LET held == IF ev'.op = "pair_deliver"
                      THEN input(peer, Head(wire.fwd)).s.kcp_.rcv
                      ELSE peer.kcp_.rcv
        IN  /\ peer'.kcp_.rcv = <<>>
            /\ DataOf(cb_log', 1) = held
    ]_vars

(***************************************************************************)
(* C29: when a user callback run by the server (the new-connection         *)
(* callback, or the data callback inside recv()) closes the session it is   *)
(* given and the server's close callback erases it from the table, the      *)
(* handler that is running makes no further call on that session: no        *)
(* update_active_time, input or recv in handle_udp_data, no further turn    *)
(* of recv()'s loop and no iterator step in update_connections.             *)
(***************************************************************************)
C29_NoUseAfterRemoval == ev.op \in {"udp", "sweep"} => ev.gone = <<>>

(***************************************************************************)
(* C30: KCPClient::handle_udp_data does to the client's session what       *)
(* KCPServer::handle_udp_data does to the table entry of the datagram's     *)
(* conv; a datagram shorter than 24 bytes, or one whose leading conv is not *)
(* the session's, changes neither last_active_time_ nor the engine.         *)
(***************************************************************************)
C30_ClientDemux ==
  [][ (ev'.op = "client_udp" /\ client.connection_ # NoConn) =>
        LET dg == [len |-> ev'.len, conv |-> ev'.conv, cmd |-> ev'.arg,
                   data |-> ev'.data, addr |-> ev'.addr]
            s  == client.connection_
        IN  /\ client'.connection_ # NoConn
            /\ IF TooShort(dg.len) \/ dg.conv # s.conv_
                 THEN /\ client'.connection_.last_active_time_ = s.last_active_time_
                      /\ client'.connection_.kcp_ = s.kcp_
                 ELSE client'.connection_ =
                        handle_udp_data(<<s>>, dg, clock, "none",
                                        client.kcp_config_, 0).tab[1]
    ]_vars


(***************************************************************************)
(* C31.  close() is synchronous.                                           *)
(***************************************************************************)

Attributable(e, op, s) ==
  e.op = op /\ e.len >= MinHeaderLen /\ e.conv = s.conv_

\* C32: last_active_time_ of a session is the clock read at the latest
\* datagram of at least 24 bytes that carried the session's id, or at its
\* creation: the demux of such a datagram sets it to the clock, and no
\* other step (input, update, recv, send, send_udp_direct, close, the
\* sweep, the demux of any other datagram) changes it.  Stated for a lone
\* session, for the entries of the server's table and for the client's
\* session.
C32_LastActiveFrame ==
  [][ /\ (conn # NoConn /\ conn' # NoConn) =>
           conn'.last_active_time_ = conn.last_active_time_
      /\ \A c \in Convs :
           MapFind(connections_', c) # 0 =>
             MapGet(connections_', c).last_active_time_ =
               IF MapFind(connections_, c) = 0
                    \/ Attributable(ev', "udp", MapGet(connections_', c))
                 THEN clock
                 ELSE MapGet(connections_, c).last_active_time_
      /\ client'.connection_ # NoConn =>
           client'.connection_.last_active_time_ =
             IF client.connection_ = NoConn
                  \/ Attributable(ev', "client_udp", client.connection_)
               THEN clock
               ELSE client.connection_.last_active_time_ ]_vars


(***************************************************************************)
(* C33.  The source address of a datagram and the session it is credited   *)
(* to.                                                                     *)
(***************************************************************************)

\* C33: a datagram that carries the id of a session of the table but comes
\* from another address than the one the session was created with changes
\* neither the session's last_active_time_ nor its engine, and the session
\* answers nothing to it.
C33_AddressValidated ==
  [][ \A c \in MapKeys(connections_) :
        (/\ ev'.op = "udp"
         /\ ev'.conv = c
         /\ ev'.len >= MinHeaderLen
         /\ ev'.addr # MapGet(connections_, c).addr_) =>
          /\ c \in MapKeys(connections_')
          /\ MapGet(connections_', c).last_active_time_ =
               MapGet(connections_, c).last_active_time_
          /\ MapGet(connections_', c).kcp_ = MapGet(connections_, c).kcp_
          /\ cb_log' = <<>>
          /\ out_log' = <<>> ]_vars


(***************************************************************************)
(* C34.  Sessions and the datagrams the engine rejects.                    *)
(***************************************************************************)

\* C34: when the demux of a datagram creates a session (and notifies the
\* new-connection callback), input() has accepted the datagram; and a
\* datagram of at least 24 bytes that input() rejects leaves the table as
\* it was.
C34_NoSessionFromRejected ==
  [][ ev'.op = "udp" =>
        /\ (\/ MapKeys(connections_') # MapKeys(connections_)
            \/ \E i \in DOMAIN cb_log' : cb_log'[i].cb = "new") => ev'.ret = 0
        /\ (ev'.len >= MinHeaderLen /\ ev'.ret < 0) =>
             connections_' = connections_ ]_vars


(***************************************************************************)
(* C35.  Rejected datagrams and the timeout.                               *)
(***************************************************************************)

\* C35: a datagram that the session's input() rejects does not move the
\* session's last_active_time_, in the server's table or in the client, so
\* that is_timeout() goes on measuring from the last accepted datagram.
C35_OnlyValidTrafficCredits ==
  [][ /\ (ev'.op = "udp" /\ ev'.ret < 0) =>
           \A c \in MapKeys(connections_) \cap MapKeys(connections_') :
             /\ MapGet(connections_', c).last_active_time_ =
                  MapGet(connections_, c).last_active_time_
             /\ is_timeout(MapGet(connections_', c), clock, timeout_) =
                  is_timeout(MapGet(connections_, c), clock, timeout_)
      /\ (/\ ev'.op = "client_udp" /\ ev'.ret < 0
          /\ client.connection_ # NoConn /\ client'.connection_ # NoConn) =>
           client'.connection_.last_active_time_ =
             client.connection_.last_active_time_ ]_vars


(***************************************************************************)
(* C36.  connect() and bind_and_listen() that fail.                        *)
(***************************************************************************)

\* C36: a connect() that fails at the address, at the bind, at the start of
\* the reception or at the start of the timer leaves the client as it was:
\* no session, not running, neither handle active, and a later connect() is
\* not refused for a session that exists; a bind_and_listen() that fails
\* leaves running_, the reception, the timer and the table as they were.
C36_StartFailureAtomic ==
  [][ /\ (ev'.op = "connect" /\ ev'.ret < 0 /\ ~AlreadyConnected(client)) =>
           /\ client' = client
           /\ ~is_connected(client')
           /\ ~AlreadyConnected(client')
      /\ (ev'.op = "bind_and_listen" /\ ev'.arg # "ok") =>
           /\ running_' = running_
           /\ recv_active' = recv_active
           /\ timer_active' = timer_active
           /\ connections_' = connections_ ]_vars


(***************************************************************************)
(* C37.  The client and the timeout.                                       *)
(***************************************************************************)

\* C37: no step of the client other than disconnect(), stop() and the
\* destructor releases the client's session, changes its state or invokes
\* its close callback, however long the peer has been silent: the timer
\* handler in particular leaves a session that is_timeout() would report
\* CONNECTED and in place.
C37_ClientNeverEvicts ==
  [][ (/\ client.connection_ # NoConn
       /\ ev'.op \notin {"disconnect", "client_stop", "client_destroy"}) =>
        /\ client'.connection_ # NoConn
        /\ client'.connection_.state_ = client.connection_.state_
        /\ client'.closes = client.closes
        /\ \A i \in DOMAIN cb_log' : cb_log'[i].cb # "close" ]_vars

\* The timer has fired on a client whose session has a close callback
\* and has been silent for longer than the shortest timeout; the session
\* is still connected.
C37_Witness ==
  /\ ev.op = "client_timer"
  /\ is_connected(client)
  /\ client.connection_.close_callback_ # "none"
  /\ client.closes = 0
  /\ \E t \in Timeouts : is_timeout(client.connection_, clock, t)

==========================================================================
